---- MODULE Spec2Model ----
(***************************************************************************)
(* Model of bafser's JsonObj (src/src/bafser/jsonobj.py): parsing a raw    *)
(* JSON value into an instance, validate(), json() and validate_type; of   *)
(* type_to_json (doc_api.py); and of the soft delete and the singleton of  *)
(* table_base.py, each under a specification of its own.                   *)
(*                                                                         *)
(* A Python value is a pair <<name of type(x), payload>>.  A dict is a      *)
(* sequence of <<key, value>> pairs in insertion order.  A JsonObj         *)
(* instance has the payload [cls, attrs, _exceptions].  A type annotation  *)
(* is a pair <<kind, argument>>.                                           *)
(*                                                                         *)
(* The code reads t.__name__ of a type to build its messages.  What that   *)
(* gives for a union int | str depends on the interpreter: CPython 3.12    *)
(* and 3.13 raise AttributeError, later versions name it "Union".  The     *)
(* variable union_has_name is the interpreter's choice, fixed from Init.   *)
(***************************************************************************)
EXTENDS Integers, Sequences, FiniteSets, TLC

VARIABLES pc, cls, raw, obj, verr, out, vt, calls, union_has_name, doc, ret,
          is_table, db, hist, last, found, sdb, sess, app, web, logf

\* the variables of the records and sessions of table_base.py
dbvars == <<is_table, db, hist, last, found, sdb, sess>>
\* the variables of the JsonObj instance, its calls and the documentation
objvars == <<pc, cls, raw, obj, verr, out, vt, calls, union_has_name, doc, ret>>
\* the call of run() (app.py), the requests and their sessions
\* (use_db_session.py), and the log files (logger.py)
sysvars == <<app, web, logf>>
vars == <<pc, cls, raw, obj, verr, out, vt, calls, union_has_name, doc, ret,
          is_table, db, hist, last, found, sdb, sess, app, web, logf>>

(* ---------------------------- bounds ----------------------------------- *)
MaxListLen == 2
MaxCalls == 2
MaxDepth == 10
MaxDocs == 2
MaxRows == 2
MaxOps == 2
MaxGets == 2
\* the deepest nesting of wrapped functions, and the sessions one run creates
MaxNest == 3
MaxSess == 3
\* the highest number of a rotated log file, and the size at which a log
\* file is rolled over (logger.py 137, scaled down)
MaxFiles == 3
MaxBytes == 3

(* ---------------------------- values ----------------------------------- *)
None == <<"NoneType", "None">>
undefined == <<"Undefined", "Undefined">>
PyBool(b) == <<"bool", b>>
PyInt(n) == <<"int", n>>
PyFloat(n) == <<"float", n>>
PyStr(s) == <<"str", s>>
PyList(s) == <<"list", s>>
PyDict(s) == <<"dict", s>>
PyDatetime(s) == <<"datetime", s>>
MyRect(v) == <<"MyRect", v>>
Instance(c, a, e) == <<"JsonObj", [cls |-> c, attrs |-> a, _exceptions |-> e]>>
\* type(x).__name__ and the payload of a value
TypeOf(x) == x[1]
Val(x) == x[2]

Exc(t, m) == [type |-> t, msg |-> m]
NoExc == Exc("", "")
ExcRepr(x) == x.type \o "('" \o x.msg \o "')"

(* dict helpers: d is a sequence of <<key, value>> pairs with distinct keys *)
DictKeys(d) == {d[i][1] : i \in 1..Len(d)}
DictGet(d, key) == (CHOOSE i \in 1..Len(d) : d[i][1] = key) \* d[key]
DictVal(d, key) == d[DictGet(d, key)][2]
DictSet(d, key, val) ==
    IF key \in DictKeys(d)
    THEN [d EXCEPT ![DictGet(d, key)] = <<key, val>>]
    ELSE Append(d, <<key, val>>)

(* ---------------------------- types ------------------------------------ *)
T(name) == <<"class", name>>
ObjT(c) == <<"JsonObj subclass", c>>
ListOf(t) == <<"list[]", <<t>>>>
DictOf(tk, tv) == <<"dict[]", <<tk, tv>>>>
UnionOf(ts) == <<"Union", ts>>
JsonOpt(t) == <<"JsonOpt", <<t>>>>
NoType == <<"None", "None">>

int == T("int")
float == T("float")
bool == T("bool")
str == T("str")
NoneType == T("NoneType")
object == T("object")
datetime == T("datetime")

(* isinstance(t, type): plain classes and JsonObj subclasses *)
IsType(t) == t[1] \in {"class", "JsonObj subclass"}
\* issubclass(t, JsonObj)
IsJsonObjClass(t) == t[1] = "JsonObj subclass"
get_origin(t) ==
    CASE t[1] = "list[]" -> "list"
      [] t[1] = "dict[]" -> "dict"
      [] t[1] \in {"Union", "JsonOpt"} -> t[1]
      [] OTHER -> "None"
get_args(t) == IF t[1] \in {"list[]", "dict[]", "Union", "JsonOpt"} THEN t[2] ELSE <<>>

(* isinstance(obj, otype) for a plain class otype; bool is a subclass of int *)
isinstance(o, otype) ==
    CASE otype[2] = "object" -> TRUE
      [] otype[2] = "int" -> TypeOf(o) \in {"int", "bool"}
      [] OTHER -> TypeOf(o) = otype[2]

(* ---------------------------- classes ---------------------------------- *)
(* the JsonObj subclasses the model instantiates: each an ordered list of  *)
(* annotated fields, the class attributes (defaults) and its hooks         *)
Classes == {"SomeDict2", "SomeDict", "AB", "Named", "Loose", "Objs", "Pick", "Mapped", "MappedQuiet",
            "Sparse", "Opts", "Box", "Holder", "Twin", "Deep", "Norm",
            "SomeObj", "ViaList", "ViaDict", "ViaUnion",
            "ViaKey"}

type_hints(c) ==
    CASE c = "SomeDict2" -> << <<"value", int>>, <<"date", datetime>>, <<"isCool", JsonOpt(bool)>>,
                               <<"name", str>>, <<"name_opt", JsonOpt(str)>> >>
      [] c = "SomeDict" -> << <<"name", str>>, <<"keys", ListOf(UnionOf(<<int, str>>))>>,
                              <<"v", ListOf(ObjT("SomeDict2"))>> >>
      [] c = "AB" -> << <<"a", int>>, <<"b", int>> >>
      [] c = "Named" -> << <<"name", str>> >>
      [] c = "Loose" -> << <<"name", JsonOpt(str)>>, <<"tag", JsonOpt(int)>> >>
      [] c = "Objs" -> << <<"objs", ListOf(ObjT("Named"))>> >>
      [] c = "Pick" -> << <<"item", UnionOf(<<ObjT("Named"), ObjT("Loose")>>)>>,
                          <<"num", UnionOf(<<int, object>>)>> >>
      [] c \in {"Mapped", "MappedQuiet"} ->
            << <<"frm", int>>, <<"rect", JsonOpt(T("MyRect"))>>, <<"to", JsonOpt(int)>> >>
      [] c = "Sparse" -> << <<"tags", ListOf(str)>>, <<"note", JsonOpt(str)>> >>
      [] c = "Opts" -> << <<"isCool", JsonOpt(bool)>>, <<"name_opt", JsonOpt(str)>> >>
      [] c = "Box" -> << <<"m", ObjT("Mapped")>>, <<"n", int>> >>
      [] c = "Holder" -> << <<"m", UnionOf(<<ObjT("Mapped"), NoneType>>)>>, <<"n", int>> >>
      [] c = "Norm" -> << <<"objs", ListOf(ObjT("Named"))>> >>
      [] c = "Deep" -> << <<"grid", ListOf(ListOf(int))>>, <<"table", DictOf(str, ListOf(int))>>,
                          <<"objs", ListOf(ObjT("Named"))>>, <<"opt", JsonOpt(ListOf(int))>> >>
      [] c = "Twin" -> << <<"rec", ObjT("Named")>>, <<"rec_opt", JsonOpt(ObjT("Named"))>>,
                          <<"date", datetime>>, <<"date_opt", JsonOpt(datetime)>>,
                          <<"objs", ListOf(ObjT("Named"))>>, <<"objs_opt", JsonOpt(ListOf(ObjT("Named")))>> >>
      [] c = "SomeObj" -> << <<"value", int>>, <<"isCool", JsonOpt(bool)>>, <<"name", str>>,
                             <<"some", JsonOpt(ObjT("SomeObj"))>> >>
      [] c = "ViaList" -> << <<"kids", ListOf(ObjT("ViaList"))>> >>
      [] c = "ViaDict" -> << <<"m", DictOf(str, ObjT("ViaDict"))>> >>
      [] c = "ViaUnion" -> << <<"u", UnionOf(<<ObjT("ViaUnion"), NoneType>>)>> >>
      [] c = "ViaKey" -> << <<"k", <<"JsonSingleKey", <<"id", ObjT("ViaKey")>>>> >> >>

(* class attributes that give a field its default *)
class_attrs(c) ==
    CASE c = "SomeDict2" -> << <<"name", PyStr("anonym")>>, <<"name_opt", PyStr("anonym")>> >>
      [] c = "Opts" -> << <<"name_opt", PyStr("anonym")>> >>
      [] c = "SomeObj" -> << <<"name", PyStr("anonym")>> >>
      [] OTHER -> <<>>

Fields(c) == {type_hints(c)[i][1] : i \in 1..Len(type_hints(c))}
HintOf(c, key) == type_hints(c)[CHOOSE i \in 1..Len(type_hints(c)) : type_hints(c)[i][1] = key][2]
\* self._type_hints.get(k, None)
hints_get(c, key) == IF key \in Fields(c) THEN HintOf(c, key) ELSE NoType

(* ---------------------------- hooks ------------------------------------ *)
HNone == [st |-> "None", k |-> "", v |-> None, x |-> NoExc]
HRet(key, val) == [st |-> "ret", k |-> key, v |-> val, x |-> NoExc]
HRaise(x) == [st |-> "raise", k |-> "", v |-> None, x |-> x]

\* MyRect(v): the custom parser of the docstring; it rejects anything but a list
MakeRect(val) == IF TypeOf(val) = "list" THEN HRet("rect", MyRect(Val(val)))
                 ELSE HRaise(Exc("ValueError", "bad rect"))

\* int(v) as a custom parser: a numeral converts, any other str raises
MakeInt(val) == IF TypeOf(val) = "int" THEN HRet("to", val)
                ELSE IF val = PyStr("7") THEN HRet("to", PyInt(7))
                ELSE HRaise(Exc("ValueError", "invalid literal for int()"))

\* _parse(self, key, v, json): the base class returns None; Mapped overrides it
\* as the class docstring shows, and both maps and converts the key until:
\* return "to", int(v); MappedQuiet is Mapped with parsers that give up by
\* returning None; Norm overrides it in the same shape for its list field:
\* if key == "objs": return key, v
_parse(c, key, val) ==
    CASE c = "Mapped" /\ key = "from" -> HRet("frm", val)
      [] c = "Mapped" /\ key = "rect" -> MakeRect(val)
      [] c = "Mapped" /\ key \in {"to", "until"} -> MakeInt(val)
      [] c = "Norm" /\ key = "objs" -> HRet(key, val)
      [] c = "MappedQuiet" /\ key = "from" -> HRet("frm", val)
      [] c = "MappedQuiet" /\ key = "until" ->
            IF MakeInt(val).st = "raise" THEN HNone ELSE MakeInt(val)
      [] c = "MappedQuiet" /\ key = "rect" ->
            IF MakeRect(val).st = "raise" THEN HNone ELSE MakeRect(val)
      [] c = "MappedQuiet" /\ key = "to" ->
            IF MakeInt(val).st = "raise" THEN HNone ELSE MakeInt(val)
      [] OTHER -> HNone

\* _serialize(self, key, v): the base class returns None; Mapped overrides it
\* as the class docstring shows; Sparse overrides it to leave out the value
\* "skip", by returning undefined in its place
_serialize(c, key, val) ==
    CASE c \in {"Mapped", "MappedQuiet"} /\ key = "rect" /\ TypeOf(val) = "MyRect" -> HRet(key, PyList(Val(val)))
      [] c = "Sparse" /\ val = PyStr("skip") -> HRet(key, undefined)
      [] OTHER -> HNone

(* ---------------------------- datetime --------------------------------- *)
\* datetime.fromisoformat: only a str in ISO format converts
IsoStrings == {"2020-01-01", "2020-01-01T00:00:00"}
fromisoformat(val) ==
    IF TypeOf(val) # "str" THEN HRaise(Exc("TypeError", "fromisoformat: argument must be str"))
    ELSE IF Val(val) \in IsoStrings THEN HRet("", PyDatetime("2020-01-01T00:00:00"))
    ELSE HRaise(Exc("ValueError", "Invalid isoformat string"))
\* datetime.isoformat
isoformat(d) == PyStr(Val(d))

(* ---------------------------- parsing ---------------------------------- *)
PI(none, key, val, exc, raised) ==
    [none |-> none, k |-> key, v |-> val, exc |-> exc, raised |-> raised]

\* variant: the hook is called outside any try/except
call_parse_hook_uncaught(c, exc, key, val, t) ==
    LET h == _parse(c, key, val)
    IN  IF h.st = "ret"
        THEN [k |-> h.k, v |-> h.v, t |-> hints_get(c, h.k), exc |-> exc, raised |-> NoExc]
        ELSE IF h.st = "raise"
        THEN [k |-> key, v |-> val, t |-> t, exc |-> exc, raised |-> h.x]
        ELSE [k |-> key, v |-> val, t |-> t, exc |-> exc, raised |-> NoExc]

\* jsonobj.py 103-109: the hook is called inside try/except; a hook that
\* returns a pair replaces key, value and type, one that raises is recorded
\* under the key it was called with
call_parse_hook(c, exc, key, val, t) ==
    LET h == _parse(c, key, val)
    IN  IF h.st = "ret"
        THEN [k |-> h.k, v |-> h.v, t |-> hints_get(c, h.k), exc |-> exc, raised |-> NoExc]
        ELSE IF h.st = "raise"
        THEN [k |-> key, v |-> val, t |-> t, exc |-> Append(exc, <<key, h.x>>), raised |-> NoExc]
        ELSE [k |-> key, v |-> val, t |-> t, exc |-> exc, raised |-> NoExc]

\* variant: a failed conversion leaves the field without a value
parse_datetime_or_undefined(val) ==
    LET d == fromisoformat(val)
    IN  IF d.st = "ret" THEN d.v ELSE undefined

\* jsonobj.py 128-132: a failed conversion leaves the value as it is
parse_datetime(val) ==
    LET d == fromisoformat(val)
    IN  IF d.st = "ret" THEN d.v ELSE val

RECURSIVE parse_item(_, _, _, _, _)
RECURSIVE parse_list(_, _, _, _, _, _, _)
RECURSIVE init_items(_, _, _, _, _)
RECURSIVE JsonObj_init(_, _)

\* jsonobj.py 117: v = t(v), made being the result of the constructor
parse_nested(h, made) == PI(FALSE, h.k, made.self, h.exc, made.raised)
\* jsonobj.py 127: v = l, l being the result of the loop over the elements
parse_listed(h, l) == PI(FALSE, h.k, PyList(l.v), l.exc, l.raised)

\* variant: a key outside the schema is assigned like any other
parse_typed_any(c, h) ==
    IF h.raised # NoExc THEN PI(TRUE, h.k, h.v, h.exc, h.raised)
    ELSE PI(FALSE, h.k, h.v, h.exc, NoExc)

\* jsonobj.py 111-133: the type-directed part, h being the result of the hook
parse_typed(c, h) ==
    IF h.raised # NoExc THEN PI(TRUE, h.k, h.v, h.exc, h.raised)
    ELSE IF h.k \notin Fields(c) THEN PI(TRUE, h.k, h.v, h.exc, NoExc)
    ELSE IF IsType(h.t) /\ IsJsonObjClass(h.t)
    THEN parse_nested(h, JsonObj_init(h.t[2], h.v))
    ELSE IF get_origin(h.t) = "list" /\ Len(get_args(h.t)) = 1 /\ TypeOf(h.v) = "list"
    THEN parse_listed(h, parse_list(c, h.exc, h.k, Val(h.v), get_args(h.t)[1], 1, <<>>))
    ELSE IF h.t = datetime /\ TypeOf(h.v) # "datetime"
    THEN PI(FALSE, h.k, parse_datetime(h.v), h.exc, NoExc)
    ELSE PI(FALSE, h.k, h.v, h.exc, NoExc)

\* __parse_item__(self, k, v, t, json), self being of class c with the
\* exceptions exc recorded so far
parse_item(c, exc, key, val, t) == parse_typed(c, call_parse_hook(c, exc, key, val, t))

\* jsonobj.py 124-126: r is the parsed element i; it is kept unless it is
\* undefined or has no key
parse_list_next(c, key, els, t, i, l, r) ==
    IF r.raised # NoExc THEN [v |-> l, exc |-> r.exc, raised |-> r.raised]
    ELSE parse_list(c, r.exc, key, els, t, i + 1,
                    IF r.v # undefined /\ ~r.none THEN Append(l, r.v) ELSE l)

\* jsonobj.py 120-127: the loop over the elements of a list
parse_list(c, exc, key, els, t, i, l) ==
    IF i > Len(els) THEN [v |-> l, exc |-> exc, raised |-> NoExc]
    ELSE parse_list_next(c, key, els, t, i, l, parse_item(c, exc, key, els[i], t))

\* variant: a field without a class attribute starts as None
init_attrs_none(c) ==
    [f \in Fields(c) |->
        IF f \in DictKeys(class_attrs(c)) THEN DictVal(class_attrs(c), f) ELSE None]

\* jsonobj.py 86-89: the attributes of a fresh instance; hasattr sees the
\* class attributes, every other field is set to undefined
init_attrs(c) ==
    [f \in Fields(c) |->
        IF f \in DictKeys(class_attrs(c)) THEN DictVal(class_attrs(c), f) ELSE undefined]

\* variant: an attribute that holds a value keeps it
setattr_keep(attrs, key, val) == IF attrs[key] # undefined THEN attrs ELSE (key :> val) @@ attrs

setattr(attrs, key, val) == (key :> val) @@ attrs

\* variant: a value that is no instance of the class its field declares is
\* recorded as an exception and ends the loop
init_items_next_strict(c, items, i, attrs, r) ==
    IF r.raised # NoExc THEN [self |-> Instance(c, attrs, r.exc), raised |-> r.raised]
    ELSE IF ~r.none /\ hints_get(c, r.k)[1] = "class" /\ ~isinstance(r.v, hints_get(c, r.k))
    THEN [self |-> Instance(c, attrs, Append(r.exc, <<r.k, Exc("TypeError", "bad value")>>)),
          raised |-> NoExc]
    ELSE init_items(c, items, i + 1, IF ~r.none THEN setattr(attrs, r.k, r.v) ELSE attrs, r.exc)

\* jsonobj.py 99-100: r is the parsed item i; it is assigned unless its key is None
init_items_next(c, items, i, attrs, r) ==
    IF r.raised # NoExc THEN [self |-> Instance(c, attrs, r.exc), raised |-> r.raised]
    ELSE init_items(c, items, i + 1, IF ~r.none THEN setattr(attrs, r.k, r.v) ELSE attrs, r.exc)

\* jsonobj.py 94-100: the loop over the items of the raw dict
init_items(c, items, i, attrs, exc) ==
    IF i > Len(items) THEN [self |-> Instance(c, attrs, exc), raised |-> NoExc]
    ELSE init_items_next(c, items, i, attrs,
                         parse_item(c, exc, items[i][1], items[i][2], hints_get(c, items[i][1])))

\* JsonObj.__init__(self, json)
JsonObj_init(c, json) ==
    IF TypeOf(json) # "dict" THEN [self |-> Instance(c, init_attrs(c), <<>>), raised |-> NoExc]
    ELSE init_items(c, Val(json), 1, init_attrs(c), <<>>)

(* ---------------------------- validation ------------------------------- *)
\* type_names.get(t, t.__name__): NoneType is listed in type_names, a class
\* and a generic alias have a __name__, a types.UnionType has one or has
\* none, as the interpreter chooses
HasName(t) == t[1] # "Union" \/ union_has_name
TypeName(t) ==
    CASE t[1] = "class" -> IF t[2] = "NoneType" THEN "None" ELSE t[2]
      [] t[1] = "JsonObj subclass" -> t[2]
      [] t[1] = "list[]" -> "list"
      [] t[1] = "dict[]" -> "dict"
      [] OTHER -> t[1]
NoNameError == Exc("AttributeError", "'types.UnionType' object has no attribute '__name__'")

\* results of validate_type: (obj, None), (None, err) or an exception; tried
\* lists the union members the call validated against, in order
VOk(tried) == [st |-> "ok", err |-> None, x |-> NoExc, tried |-> tried]
VErr(s, tried) == [st |-> "err", err |-> PyStr(s), x |-> NoExc, tried |-> tried]
VRaise(x, tried) == [st |-> "raise", err |-> None, x |-> x, tried |-> tried]
\* an error message that names the type t
VNotA(prefix, t, suffix, tried) ==
    IF HasName(t) THEN VErr(prefix \o TypeName(t) \o suffix, tried)
    ELSE VRaise(NoNameError, tried)

RECURSIVE JoinNames(_, _)
\* " | ".join(type_names.get(t, t.__name__) for t in targs), from member i on
JoinNames(targs, i) ==
    IF i > Len(targs) THEN ""
    ELSE TypeName(targs[i]) \o (IF i < Len(targs) THEN " | " ELSE "") \o JoinNames(targs, i + 1)

\* results of validate: the returned error (None or a str) or an exception,
\* the instance's _exceptions after the call, and the fields it examined
VReturn(err, exc, examined) ==
    [st |-> "return", err |-> err, x |-> NoExc, exc |-> exc, examined |-> examined]
VThrow(x, exc, examined) ==
    [st |-> "raise", err |-> None, x |-> x, exc |-> exc, examined |-> examined]

RECURSIVE validate_type(_, _, _)
RECURSIVE validate_list(_, _, _, _, _)
RECURSIVE validate_dict(_, _, _, _, _, _)
RECURSIVE validate_union(_, _, _, _, _)
RECURSIVE validate_fields(_, _, _, _)
RECURSIVE validate(_)

\* jsonobj.py 315-317
validate_mismatch(o, otype) ==
    IF o = undefined THEN VErr(" is undefined", <<>>)
    ELSE VErr(" is not " \o TypeName(otype), <<>>)

\* variant: the exception of the nested instance is never raised, its
\* error is returned with the path
validate_nested_quiet(res, r) ==
    IF res.st = "raise" THEN VRaise(res.x, <<>>)
    ELSE IF res.err = None THEN VOk(<<>>)
    ELSE VErr("." \o Val(res.err), <<>>)

\* jsonobj.py 305-312: res is the result of obj.validate()
validate_nested(res, r) ==
    IF res.st = "raise" THEN VRaise(res.x, <<>>)
    ELSE IF Len(res.exc) # 0 /\ r
    THEN VRaise(Exc("JsonParseError", ExcRepr(res.exc[1][2])), <<>>)
    ELSE IF res.err = None THEN VOk(<<>>)
    ELSE VErr("." \o Val(res.err), <<>>)

\* jsonobj.py 304: made is the result of otype(obj)
validate_made(made, r) ==
    IF made.raised # NoExc THEN VRaise(made.raised, <<>>)
    ELSE validate_nested(validate(Val(made.self)), r)

\* jsonobj.py 302-312: otype is a JsonObj subclass
validate_jsonobj(o, otype, r) ==
    IF TypeOf(o) # "JsonObj" THEN validate_made(JsonObj_init(otype[2], o), r)
    ELSE validate_nested(validate(Val(o)), r)

\* variant: no special case for bool
validate_simple_nobool(o, otype, r) ==
    IF IsJsonObjClass(otype) THEN validate_jsonobj(o, otype, r)
    ELSE IF isinstance(o, otype) THEN VOk(<<>>)
    ELSE validate_mismatch(o, otype)

\* jsonobj.py 298-317: otype is a class
validate_simple(o, otype, r) ==
    IF TypeOf(o) = "bool"
    THEN IF otype = bool THEN VOk(<<>>) ELSE validate_mismatch(o, otype)
    ELSE IF IsJsonObjClass(otype) THEN validate_jsonobj(o, otype, r)
    ELSE IF isinstance(o, otype) THEN VOk(<<>>)
    ELSE validate_mismatch(o, otype)

\* variant: the elements are numbered from 1
validate_list_next_from1(els, t, r, i, tried, res) ==
    IF res.st = "raise" THEN VRaise(res.x, tried \o res.tried)
    ELSE IF res.err # None
    THEN VErr("[" \o ToString(i) \o "]" \o Val(res.err), tried \o res.tried)
    ELSE validate_list(els, t, r, i + 1, tried \o res.tried)

\* jsonobj.py 327-329: res is the result for element i
validate_list_next(els, t, r, i, tried, res) ==
    IF res.st = "raise" THEN VRaise(res.x, tried \o res.tried)
    ELSE IF res.err # None
    THEN VErr("[" \o ToString(i - 1) \o "]" \o Val(res.err), tried \o res.tried)
    ELSE validate_list(els, t, r, i + 1, tried \o res.tried)

\* jsonobj.py 326-330: the loop over the elements of a list
validate_list(els, t, r, i, tried) ==
    IF i > Len(els) THEN VOk(tried)
    ELSE validate_list_next(els, t, r, i, tried, validate_type(els[i], t, r))

\* jsonobj.py 343-346: rv is the result for the value of item i
validate_dict_value(items, tk, tv, r, i, tried, rv) ==
    IF rv.st = "raise" THEN VRaise(rv.x, tried \o rv.tried)
    ELSE IF rv.err # None THEN VErr("." \o items[i][1] \o Val(rv.err), tried \o rv.tried)
    ELSE validate_dict(items, tk, tv, r, i + 1, tried \o rv.tried)

\* jsonobj.py 339-346: rk is the result for the key of item i
validate_dict_key(items, tk, tv, r, i, tried, rk) ==
    IF rk.st = "raise" THEN VRaise(rk.x, tried \o rk.tried)
    ELSE IF rk.err # None
    THEN VErr(" key '" \o items[i][1] \o "'" \o Val(rk.err), tried \o rk.tried)
    ELSE validate_dict_value(items, tk, tv, r, i, tried \o rk.tried,
                             IF tv # T("Any") THEN validate_type(items[i][2], tv, r) ELSE VOk(<<>>))

\* jsonobj.py 338-347: the loop over the items of a dict
validate_dict(items, tk, tv, r, i, tried) ==
    IF i > Len(items) THEN VOk(tried)
    ELSE validate_dict_key(items, tk, tv, r, i, tried,
                           IF tk # T("Any") THEN validate_type(PyStr(items[i][1]), tk, r)
                           ELSE VOk(<<>>))

\* variant: a member that accepts does not end the loop
validate_union_next_all(o, targs, r, i, tried, res) ==
    IF res.st = "raise" THEN VRaise(res.x, Append(tried, targs[i]))
    ELSE validate_union(o, targs, r, i + 1, Append(tried, targs[i]))

\* jsonobj.py 352-354: res is the result for member i; the first member
\* without an error ends the loop
validate_union_next(o, targs, r, i, tried, res) ==
    IF res.st = "raise" THEN VRaise(res.x, Append(tried, targs[i]))
    ELSE IF res.err = None THEN VOk(Append(tried, targs[i]))
    ELSE validate_union(o, targs, r, i + 1, Append(tried, targs[i]))

\* jsonobj.py 351-355: the members of a union, in the order of targs
validate_union(o, targs, r, i, tried) ==
    IF i > Len(targs)
    THEN IF \A j \in 1..Len(targs) : HasName(targs[j])
         THEN VErr(" is not " \o JoinNames(targs, 1), tried)
         ELSE VRaise(NoNameError, tried)
    ELSE validate_union_next(o, targs, r, i, tried, validate_type(o, targs[i], r))

\* jsonobj.py 362-365: res is the result for the inner type; its error is
\* replaced by one that names the inner type
validate_opt_inner(t, res) ==
    IF res.st = "raise" THEN res
    ELSE IF res.err = None THEN VOk(res.tried)
    ELSE VNotA(" is not ", t, "", res.tried)

\* variant: undefined is validated against the inner type like any value
validate_opt_strict(o, t, r) == validate_opt_inner(t, validate_type(o, t, r))

\* jsonobj.py 358-365
validate_opt(o, t, r) ==
    IF o = undefined THEN VOk(<<>>)
    ELSE validate_opt_inner(t, validate_type(o, t, r))

\* validate_type(obj, otype, r)
validate_type(o, otype, r) ==
    IF IsType(otype) THEN validate_simple(o, otype, r)
    ELSE IF get_origin(otype) = "list" /\ Len(get_args(otype)) = 1
    THEN IF TypeOf(o) # "list" THEN VNotA(" is not list[", get_args(otype)[1], "]", <<>>)
         ELSE validate_list(Val(o), get_args(otype)[1], r, 1, <<>>)
    ELSE IF get_origin(otype) = "dict" /\ Len(get_args(otype)) = 2
    THEN IF TypeOf(o) # "dict"
         THEN IF HasName(get_args(otype)[1]) /\ HasName(get_args(otype)[2])
              THEN VErr(" is not dict[" \o TypeName(get_args(otype)[1]) \o ","
                        \o TypeName(get_args(otype)[2]) \o "]", <<>>)
              ELSE VRaise(NoNameError, <<>>)
         ELSE validate_dict(Val(o), get_args(otype)[1], get_args(otype)[2], r, 1, <<>>)
    ELSE IF get_origin(otype) = "Union" THEN validate_union(o, get_args(otype), r, 1, <<>>)
    ELSE IF get_origin(otype) = "JsonOpt" /\ Len(get_args(otype)) = 1
    THEN validate_opt(o, get_args(otype)[1], r)
    ELSE VRaise(Exc("Exception", "[bafser] validate_type: unsupported type"), <<>>)

\* variant: an exception ends the loop as an error does
validate_fields_next_stop(self, i, exc, examined, res) ==
    IF res.st = "raise"
    THEN VReturn(None, Append(exc, <<type_hints(self.cls)[i][1], res.x>>), examined)
    ELSE IF res.err # None
    THEN VReturn(PyStr(type_hints(self.cls)[i][1] \o Val(res.err)), exc, examined)
    ELSE validate_fields(self, i + 1, exc, examined)

\* jsonobj.py 175-180: res is the result for field i; an error ends the
\* loop, an exception is recorded and the loop goes on
validate_fields_next(self, i, exc, examined, res) ==
    IF res.st = "raise"
    THEN validate_fields(self, i + 1, Append(exc, <<type_hints(self.cls)[i][1], res.x>>), examined)
    ELSE IF res.err # None
    THEN VReturn(PyStr(type_hints(self.cls)[i][1] \o Val(res.err)), exc, examined)
    ELSE validate_fields(self, i + 1, exc, examined)

\* jsonobj.py 172-180: the loop over the fields, from field i on
validate_fields(self, i, exc, examined) ==
    IF i > Len(type_hints(self.cls)) THEN VReturn(None, exc, examined)
    ELSE validate_fields_next(self, i, exc, Append(examined, type_hints(self.cls)[i][1]),
             validate_type(self.attrs[type_hints(self.cls)[i][1]], type_hints(self.cls)[i][2], TRUE))

\* variant: the error of the loop comes before a recorded exception
validate_result_loop_first(self, looped) ==
    IF looped.err # None THEN looped
    ELSE IF Len(looped.exc) # 0
    THEN LET key == looped.exc[1][1]
             x == looped.exc[1][2]
         IN  IF key \in Fields(self.cls)
             THEN IF HasName(HintOf(self.cls, key))
                  THEN VReturn(PyStr(key \o " is not " \o TypeName(HintOf(self.cls, key))
                                     \o ": " \o x.msg), looped.exc, looped.examined)
                  ELSE VThrow(NoNameError, looped.exc, looped.examined)
             ELSE VReturn(PyStr(key \o ": " \o x.msg), looped.exc, looped.examined)
    ELSE looped

\* jsonobj.py 181-187: a recorded exception replaces the error of the loop
validate_result(self, looped) ==
    IF Len(looped.exc) # 0
    THEN LET key == looped.exc[1][1]
             x == looped.exc[1][2]
         IN  IF key \in Fields(self.cls)
             THEN IF HasName(HintOf(self.cls, key))
                  THEN VReturn(PyStr(key \o " is not " \o TypeName(HintOf(self.cls, key))
                                     \o ": " \o x.msg), looped.exc, looped.examined)
                  ELSE VThrow(NoNameError, looped.exc, looped.examined)
             ELSE VReturn(PyStr(key \o ": " \o x.msg), looped.exc, looped.examined)
    ELSE looped

\* JsonObj.validate(self), self being the payload of an instance
validate(self) == validate_result(self, validate_fields(self, 1, self._exceptions, <<>>))

\* JsonObj.is_valid(self): the value returned, or the exception validate()
\* raises, with the instance's _exceptions after the call
is_valid(self) ==
    LET res == validate(self)
    IN  IF res.st = "raise" THEN [st |-> "raise", v |-> None, x |-> res.x, exc |-> res.exc]
        ELSE [st |-> "return", v |-> PyBool(res.err = None), x |-> NoExc, exc |-> res.exc]

\* JsonObj.valid(self): self is returned, or JsonParseError is raised: the
\* first recorded exception if it is one, else one made of its repr, else
\* one made of the error of validate()
valid(self) ==
    LET res == validate(self)
    IN  IF res.st = "raise" THEN [st |-> "raise", v |-> None, x |-> res.x, exc |-> res.exc]
        ELSE IF Len(res.exc) # 0
        THEN [st |-> "raise", v |-> None,
              x |-> IF res.exc[1][2].type = "JsonParseError" THEN res.exc[1][2]
                    ELSE Exc("JsonParseError", ExcRepr(res.exc[1][2])),
              exc |-> res.exc]
        ELSE IF res.err # None
        THEN [st |-> "raise", v |-> None, x |-> Exc("JsonParseError", Val(res.err)), exc |-> res.exc]
        ELSE [st |-> "return", v |-> Instance(self.cls, self.attrs, res.exc), x |-> NoExc, exc |-> res.exc]

(* ---------------------------- serialization ---------------------------- *)
RECURSIVE serialize_item(_, _, _)
RECURSIVE serialize_list(_, _, _, _, _)
RECURSIVE json_items(_, _, _)
RECURSIVE json(_)

\* jsonobj.py 229-240: the conversions applied after the hook
serialize_value(c, key, val) ==
    IF TypeOf(val) = "JsonObj" THEN <<key, json(Val(val))>>
    ELSE IF TypeOf(val) = "datetime" THEN <<key, isoformat(val)>>
    ELSE IF TypeOf(val) = "list" THEN <<key, PyList(serialize_list(c, key, Val(val), 1, <<>>))>>
    ELSE <<key, val>>

\* jsonobj.py 226-228: s is the result of the hook
serialize_hooked(c, key, val, s) ==
    IF s.st = "ret" THEN serialize_value(c, s.k, s.v) ELSE serialize_value(c, key, val)

\* variant: undefined is emitted as None
serialize_item_null(c, key, val) ==
    IF val = undefined THEN <<key, None>>
    ELSE serialize_hooked(c, key, val, _serialize(c, key, val))

\* __serialize_item__(self, k, v), self being of class c
serialize_item(c, key, val) ==
    IF val = undefined THEN <<key, undefined>>
    ELSE serialize_hooked(c, key, val, _serialize(c, key, val))

\* variant: an element that serializes to undefined stays in the list
serialize_list_next_keep(c, key, els, i, l, kv) ==
    serialize_list(c, key, els, i + 1, Append(l, kv[2]))

\* jsonobj.py 236-238: kv is the serialized element i
serialize_list_next(c, key, els, i, l, kv) ==
    serialize_list(c, key, els, i + 1, IF kv[2] # undefined THEN Append(l, kv[2]) ELSE l)

\* jsonobj.py 234-239: the loop over the elements of a list
serialize_list(c, key, els, i, l) ==
    IF i > Len(els) THEN l
    ELSE serialize_list_next(c, key, els, i, l, serialize_item(c, key, els[i]))

\* variant: a field that is undefined is emitted all the same
json_items_next_keep(self, i, r, kv) == json_items(self, i + 1, DictSet(r, kv[1], kv[2]))

\* jsonobj.py 217-220: kv is the serialized field i
json_items_next(self, i, r, kv) ==
    json_items(self, i + 1, IF kv[2] = undefined THEN r ELSE DictSet(r, kv[1], kv[2]))

\* jsonobj.py 216-220: the loop over items(), from field i on
json_items(self, i, r) ==
    IF i > Len(type_hints(self.cls)) THEN r
    ELSE json_items_next(self, i, r,
             serialize_item(self.cls, type_hints(self.cls)[i][1],
                            self.attrs[type_hints(self.cls)[i][1]]))

\* JsonObj.json(self), self being the payload of an instance
json(self) == PyDict(json_items(self, 1, <<>>))

(* ---------------------------- documentation ---------------------------- *)
\* jsonobj.py 144-152: _optional_fields, and _field_types with JsonOpt[T]
\* replaced by T
optional_fields(c) ==
    {type_hints(c)[i][1] : i \in {j \in 1..Len(type_hints(c)) : get_origin(type_hints(c)[j][2]) = "JsonOpt"}}
field_types(c) ==
    [i \in 1..Len(type_hints(c)) |->
        <<type_hints(c)[i][1],
          IF get_origin(type_hints(c)[i][2]) = "JsonOpt" THEN get_args(type_hints(c)[i][2])[1]
          ELSE type_hints(c)[i][2]>>]

RECURSIVE type_name(_)
RECURSIVE type_name_join(_, _)
\* type_name(otype, json=True): the name of a type as a string
type_name(t) ==
    CASE t[1] \in {"class", "JsonObj subclass"} -> t[2]
      [] t[1] = "list[]" -> type_name(t[2][1]) \o "[]"
      [] t[1] = "dict[]" -> "dict[" \o type_name(t[2][1]) \o "," \o type_name(t[2][2]) \o "]"
      [] t[1] = "Union" -> type_name_join(t[2], 1)
      [] OTHER -> t[1]
type_name_join(ts, i) ==
    IF i > Len(ts) THEN ""
    ELSE type_name(ts[i]) \o (IF i < Len(ts) THEN " | " ELSE "") \o type_name_join(ts, i + 1)

\* a call of type_to_json returns a value with the table as it left it, or
\* raises RecursionError and leaves the table as it is
DOk(val, types) == [st |-> "ok", v |-> val, types |-> types]
DRaise(types) == [st |-> "raise", v |-> None, types |-> types]

RECURSIVE type_to_json(_, _, _, _, _, _)
RECURSIVE doc_union(_, _, _, _, _, _)
RECURSIVE doc_fields(_, _, _, _, _, _)

\* doc_api.py 82-89: res is the result for the element type
doc_list(otype, verbose, res) ==
    IF res.st = "raise" THEN res
    ELSE IF TypeOf(res.v) = "str"
    THEN IF get_origin(get_args(otype)[1]) = "Union"
         THEN DOk(PyStr("(" \o Val(res.v) \o ")[]"), res.types)
         ELSE DOk(PyStr(Val(res.v) \o "[]"), res.types)
    ELSE IF verbose THEN DOk(PyList(<<res.v>>), res.types)
    ELSE DOk(PyStr(type_name(otype)), res.types)

\* doc_api.py 91-92: res is the result for the value type
doc_dict(otype, res) ==
    IF res.st = "raise" THEN res ELSE DOk(PyStr(type_name(otype)), res.types)

\* doc_api.py 94-95: res is the result for member i
doc_union_next(otype, targs, i, d, hd, res) ==
    IF res.st = "raise" THEN res ELSE doc_union(otype, targs, i + 1, res.types, d, hd)

\* doc_api.py 94-96: the members of a union, from member i on
doc_union(otype, targs, i, types, d, hd) ==
    IF i > Len(targs) THEN DOk(PyStr(type_name(otype)), types)
    ELSE doc_union_next(otype, targs, i, d, hd, type_to_json(targs[i], types, FALSE, FALSE, d + 1, hd))

\* doc_api.py 98-100: res is the result for the value type
doc_single_key(key, res) ==
    IF res.st = "raise" THEN res ELSE DOk(PyDict(<< <<key, res.v>> >>), res.types)

\* the fields type_to_json lists for a type: those of a JsonObj subclass,
\* none for another class
doc_hints(otype) == IF IsJsonObjClass(otype) THEN field_types(otype[2]) ELSE <<>>
doc_key(otype, i) ==
    IF IsJsonObjClass(otype) /\ doc_hints(otype)[i][1] \in optional_fields(otype[2])
    THEN doc_hints(otype)[i][1] \o "?" ELSE doc_hints(otype)[i][1]

\* doc_api.py 125: res is the result for field i
doc_fields_next(otype, i, r, d, hd, res) ==
    IF res.st = "raise" THEN res
    ELSE doc_fields(otype, i + 1, res.types, DictSet(r, doc_key(otype, i), res.v), d, hd)

\* doc_api.py 122-127: the loop over the fields, from field i on
doc_fields(otype, i, types, r, d, hd) ==
    IF i > Len(doc_hints(otype)) THEN DOk(PyDict(r), types)
    ELSE doc_fields_next(otype, i, r, d, hd,
                         type_to_json(doc_hints(otype)[i][2], types, FALSE, FALSE, d + 1, hd))

\* doc_api.py 119-127
doc_body(otype, types, verbose, d, hd) ==
    IF ~verbose THEN DOk(PyStr(type_name(otype)), types)
    ELSE doc_fields(otype, 1, types, <<>>, d, hd)

\* doc_api.py 118: inner is the result of the call that fills the entry
doc_registered(otype, verbose, d, hd, inner) ==
    IF inner.st = "raise" THEN inner
    ELSE doc_body(otype, DictSet(inner.types, otype[2], inner.v), verbose, d, hd)

\* doc_api.py 102-127: a class.  Reading its hints takes hd frames; when
\* they do not fit the stack, RecursionError is raised inside the try and
\* the name of the type is returned (105-114)
doc_record(otype, types, verbose, toplvl, d, hd) ==
    IF d + hd > MaxDepth THEN DOk(PyStr(type_name(otype)), types)
    ELSE IF ~toplvl /\ otype[2] \notin DictKeys(types) /\ otype[2] # "dict"
    THEN doc_registered(otype, verbose, d, hd,
                        type_to_json(otype, DictSet(types, otype[2], PyDict(<<>>)), TRUE, FALSE, d + 1, hd))
    ELSE doc_body(otype, types, verbose, d, hd)

\* type_to_json(otype, types, verbose, toplvl), called in frame d of a stack
\* of MaxDepth frames; get_origin takes one frame and is called outside any
\* try
type_to_json(otype, types, verbose, toplvl, d, hd) ==
    IF otype \in {int, float} THEN DOk(PyStr("number"), types)
    ELSE IF otype = bool THEN DOk(PyStr("boolean"), types)
    ELSE IF otype = str THEN DOk(PyStr("string"), types)
    ELSE IF otype = NoneType THEN DOk(PyStr("null"), types)
    ELSE IF d + 1 > MaxDepth THEN DRaise(types)
    ELSE IF get_origin(otype) = "list" /\ Len(get_args(otype)) = 1
    THEN doc_list(otype, verbose, type_to_json(get_args(otype)[1], types, TRUE, FALSE, d + 1, hd))
    ELSE IF get_origin(otype) = "dict"
    THEN doc_dict(otype, type_to_json(get_args(otype)[2], types, FALSE, FALSE, d + 1, hd))
    ELSE IF get_origin(otype) = "Union"
    THEN doc_union(otype, get_args(otype), 1, types, d, hd)
    ELSE IF otype[1] = "JsonSingleKey"
    THEN doc_single_key(otype[2][1], type_to_json(otype[2][2], types, verbose, FALSE, d + 1, hd))
    ELSE doc_record(otype, types, verbose, toplvl, d, hd)

(* ---------------------------- inputs ----------------------------------- *)
RECURSIVE SeqsUpTo(_, _)
\* the sequences over S of length at most n
SeqsUpTo(S, n) ==
    IF n = 0 THEN {<<>>}
    ELSE SeqsUpTo(S, n - 1) \cup {Append(q, e) : q \in SeqsUpTo(S, n - 1), e \in S}

ListsOf(S) == {PyList(q) : q \in SeqsUpTo(S, MaxListLen)}

GoodSomeDict2 == PyDict(<< <<"value", PyInt(5)>>, <<"date", PyStr("2020-01-01T00:00:00")>> >>)
BadSomeDict2 == PyDict(<< <<"value", PyStr("a")>>, <<"date", PyStr("2020-01-01")>> >>)

\* the keys a raw object given to class c may hold, and the values under each
RawKeys(c) ==
    CASE c = "SomeDict2" -> <<"value", "date", "isCool", "name", "name_opt", "zzz">>
      [] c = "SomeDict" -> <<"name", "keys", "v">>
      [] c = "AB" -> <<"a", "b", "_exceptions">>
      [] c = "Objs" -> <<"objs", "zzz">>
      [] c = "Pick" -> <<"item", "num">>
      [] c = "Mapped" -> <<"from", "frm", "rect", "to", "until", "zzz">>
      [] c = "Sparse" -> <<"tags", "note">>
      [] c = "Loose" -> <<"name", "tag">>
      [] c = "Opts" -> <<"isCool", "name_opt">>
      [] c \in {"Box", "Holder"} -> <<"m", "n">>
      [] c = "Twin" -> <<"rec", "rec_opt", "date", "date_opt", "objs", "objs_opt">>
      [] c = "Deep" -> <<"grid", "table", "objs", "opt">>
      [] c = "Norm" -> <<"objs">>

RawVals(c, key) ==
    CASE c = "SomeDict2" /\ key = "value" -> {PyInt(5), PyBool(TRUE), PyStr("a")}
      [] c = "SomeDict2" /\ key = "date" ->
            {PyStr("2020-01-01"), PyStr("2020-01-01T00:00:00"), PyStr("bad"), PyInt(5)}
      [] c = "SomeDict2" /\ key = "isCool" -> {PyBool(TRUE), None}
      [] c = "SomeDict2" /\ key = "name" -> {PyStr("bob"), PyInt(5)}
      [] c = "SomeDict2" /\ key = "name_opt" -> {PyStr("x"), None}
      [] c = "SomeDict" /\ key = "name" -> {PyStr("n"), PyInt(5)}
      [] c = "SomeDict" /\ key = "keys" ->
            ListsOf({PyInt(1), PyStr("a"), PyBool(TRUE)}) \cup {PyInt(5)}
      [] c = "SomeDict" /\ key = "v" -> ListsOf({GoodSomeDict2, BadSomeDict2}) \cup {PyStr("x")}
      [] c = "AB" /\ key = "a" -> {PyStr("bad-int"), PyInt(1), PyBool(FALSE), PyFloat(1)}
      [] c = "AB" /\ key = "b" -> {PyInt(5), None}
      [] c = "Objs" /\ key = "objs" ->
            ListsOf({PyDict(<< <<"name", PyStr("a")>> >>), PyDict(<< <<"name", PyInt(123)>> >>),
                     PyDict(<<>>)}) \cup {PyInt(5)}
      [] c = "Pick" /\ key = "item" ->
            {PyDict(<< <<"name", PyStr("a")>> >>), PyDict(<< <<"name", PyInt(5)>> >>),
             PyDict(<< <<"tag", PyInt(1)>> >>), PyInt(5)}
      [] c = "Pick" /\ key = "num" -> {PyInt(1), PyStr("s"), PyBool(TRUE)}
      [] c = "Mapped" /\ key = "from" -> {PyInt(1)}
      [] c = "Mapped" /\ key = "frm" -> {PyInt(2), PyStr("x")}
      [] c = "Mapped" /\ key = "rect" -> {PyList(<<PyInt(1), PyInt(2)>>), PyStr("oops")}
      [] c = "Mapped" /\ key = "to" -> {PyStr("7"), PyStr("x"), PyInt(3)}
      [] c = "Mapped" /\ key = "until" -> {PyStr("7"), PyStr("x")}
      [] c = "Loose" /\ key = "name" -> {PyStr("a"), PyInt(5)}
      [] c = "Opts" /\ key = "isCool" -> {PyBool(TRUE), None}
      [] c = "Box" /\ key = "m" ->
            {PyDict(<< <<"frm", PyInt(1)>> >>), PyDict(<< <<"frm", PyInt(1)>>, <<"rect", PyStr("oops")>> >>),
             PyInt(5)}
      [] c = "Box" /\ key = "n" -> {PyInt(1), PyStr("x")}
      [] c = "Holder" /\ key = "m" ->
            {PyDict(<< <<"frm", PyInt(1)>> >>), PyDict(<< <<"frm", PyInt(1)>>, <<"rect", PyStr("oops")>> >>),
             None, PyInt(5)}
      [] c = "Holder" /\ key = "n" -> {PyInt(1), PyStr("x")}
      [] c = "Norm" /\ key = "objs" ->
            {PyList(<<PyDict(<< <<"name", PyStr("a")>> >>), PyDict(<< <<"name", PyInt(5)>> >>)>>),
             PyList(<<PyDict(<< <<"name", PyStr("a")>> >>)>>), PyList(<<>>), PyStr("x")}
      [] c = "Deep" /\ key = "grid" ->
            {PyList(<<PyList(<<PyInt(1)>>), PyList(<<PyInt(2), PyStr("a")>>)>>),
             PyList(<<PyList(<<PyInt(1)>>)>>), PyList(<<PyInt(5)>>)}
      [] c = "Deep" /\ key = "table" ->
            {PyDict(<< <<"j", PyList(<<>>)>>, <<"k", PyList(<<PyInt(1), PyBool(TRUE)>>)>> >>),
             PyDict(<< <<"k", PyList(<<PyInt(1)>>)>> >>), PyDict(<< <<"k", PyInt(5)>> >>)}
      [] c = "Deep" /\ key = "objs" ->
            {PyList(<<PyDict(<< <<"name", PyStr("a")>> >>), PyDict(<< <<"name", PyInt(5)>> >>)>>),
             PyList(<<PyDict(<< <<"name", PyStr("a")>> >>)>>)}
      [] c = "Deep" /\ key = "opt" ->
            {PyList(<<PyInt(1), PyStr("a")>>), PyList(<<PyInt(1)>>), PyStr("x")}
      [] c = "Twin" /\ key \in {"rec", "rec_opt"} -> {PyDict(<< <<"name", PyStr("a")>> >>), PyInt(5)}
      [] c = "Twin" /\ key \in {"date", "date_opt"} -> {PyStr("2020-01-01"), PyStr("bad")}
      [] c = "Twin" /\ key \in {"objs", "objs_opt"} ->
            {PyList(<<PyDict(<< <<"name", PyStr("a")>> >>), PyInt(5)>>), PyStr("x")}
      [] c = "Opts" /\ key = "name_opt" -> {PyStr("x"), None}
      [] c = "Sparse" /\ key = "tags" -> ListsOf({PyStr("a"), PyStr("skip"), None})
      [] c = "Sparse" /\ key = "note" -> {PyStr("n"), PyStr("skip"), None}
      [] OTHER -> {PyInt(1)}

Reverse(q) == [i \in 1..Len(q) |-> q[Len(q) + 1 - i]]

RECURSIVE Picks(_, _)
\* the raw objects holding some of keys, in that order
Picks(c, keys) ==
    IF keys = <<>> THEN {<<>>}
    ELSE Picks(c, Tail(keys)) \cup
         {<< <<Head(keys), val>> >> \o rest : val \in RawVals(c, Head(keys)), rest \in Picks(c, Tail(keys))}

\* the classes instantiated directly, and the raw values given to them: JSON
\* objects in either key order, and the JSON values that are no object
TopClasses ==
    {"SomeDict2", "SomeDict", "AB", "Objs", "Pick", "Mapped", "Sparse", "Loose", "Opts", "Box", "Holder"}
NonObjects == {None, PyBool(TRUE), PyInt(5), PyFloat(1), PyStr("s"), PyList(<<PyInt(1)>>)}
RawInputs(c) ==
    {PyDict(d) : d \in Picks(c, RawKeys(c)) \cup Picks(c, Reverse(RawKeys(c)))} \cup NonObjects

\* the text given to parse(): malformed, or the JSON text of a value
Malformed == <<"text", <<FALSE, None>>>>
Text(val) == <<"text", <<TRUE, val>>>>
\* json.loads(data): raises on malformed text
json_loads(data) == IF data[2][1] THEN HRet("", data[2][2]) ELSE HRaise(Exc("JSONDecodeError", ""))

\* the values and types given to validate_type directly
VtValues ==
    {None, undefined, PyBool(TRUE), PyBool(FALSE), PyInt(5), PyFloat(1), PyStr("s"),
     PyDatetime("2020-01-01T00:00:00"), PyList(<<PyInt(1), PyStr("a")>>), PyList(<<PyBool(TRUE)>>),
     PyDict(<< <<"name", PyStr("a")>> >>), PyDict(<< <<"tag", PyInt(1)>> >>),
     PyDict(<< <<"name", PyInt(5)>> >>),
     Instance("Named", [name |-> PyStr("a")], <<>>),
     Instance("Loose", [name |-> undefined, tag |-> PyInt(1)], <<>>)}
PrimTypes == {int, float, bool, str, NoneType}
VtTypes ==
    PrimTypes \cup {object, datetime, ObjT("Named"), ObjT("Loose")}
    \cup {JsonOpt(t) : t \in PrimTypes \cup {ObjT("Named")}}
    \cup {ListOf(int), ListOf(UnionOf(<<int, str>>)),
          UnionOf(<<int, str>>), UnionOf(<<int, object>>), UnionOf(<<object, int>>),
          UnionOf(<<ObjT("Named"), ObjT("Loose")>>), UnionOf(<<ObjT("Loose"), ObjT("Named")>>),
          UnionOf(<<str, NoneType, float>>)}

\* the types given to type_to_json, and the frames reading the hints of a
\* class takes: one for a stored table, more for get_type_hints
DocTypes ==
    {ObjT(c) : c \in {"SomeObj", "ViaList", "ViaDict", "ViaUnion", "ViaKey", "Named", "Loose", "SomeDict",
                       "SomeDict2", "Objs"}}
    \cup {int, ListOf(int), ListOf(UnionOf(<<int, str>>)), ListOf(ObjT("Named")), UnionOf(<<int, str>>)}
HintsDepths == {1, 3}

(* ---------------------------- state machine ---------------------------- *)
\* the ids of the records of the ObjMixin table
Ids == 1..MaxRows
\* the records as they are inserted: deleted has the server default "0"
NewDb ==
    [objs |-> [id \in Ids |-> FALSE], flushed |-> [id \in Ids |-> FALSE],
     committed |-> [id \in Ids |-> FALSE], logs |-> <<>>, saved |-> 0, commits |-> 0]
\* SingletonMixin._ID
_ID == 1
\* the sessions that call SingletonMixin.get
Sessions == {"s1", "s2", "s3"}
\* the singleton table as committed, and a session before its first call
NewSingleton == [rows |-> {}, inits |-> 0]
NewSession == [pc |-> "idle", commit |-> FALSE, pending |-> FALSE, tx |-> FALSE, have |-> FALSE,
               gets |-> 0, res |-> "none"]
NoResult == [st |-> "none"]

Init == /\ pc = "start" /\ cls = "" /\ raw = None /\ obj = None
        /\ verr = NoResult /\ out = None /\ vt = NoResult /\ calls = 0
        /\ union_has_name \in BOOLEAN
        /\ doc = [st |-> "none", n |-> 0, hd |-> 0, types |-> <<>>]
        /\ ret = NoResult
        /\ is_table = TRUE /\ db = NewDb /\ hist = <<>> /\ last = NoResult /\ found = NoResult
        /\ sdb = NewSingleton /\ sess = [s \in Sessions |-> NewSession]
    /\ app = NoResult /\ web = NoResult /\ logf = NoResult
        /\ app = NoResult /\ web = NoResult /\ logf = NoResult

\* obj = cls(json)
Construct(c, j) ==
    /\ pc = "start"
    /\ LET made == JsonObj_init(c, j)
       IN  /\ pc' = IF made.raised = NoExc THEN "built" ELSE "raised"
           /\ obj' = IF made.raised = NoExc THEN made.self ELSE None
    /\ cls' = c /\ raw' = j
    /\ UNCHANGED <<verr, out, vt, calls, union_has_name, dbvars, sysvars, doc, ret>>

\* JsonObj.parse(data), jsonobj.py 154-160
parse(c, data) ==
    LET loaded == json_loads(data)
    IN  IF loaded.st = "raise" THEN PyDict(<<>>) ELSE loaded.v

Parse(c, data) ==
    /\ pc = "start"
    /\ LET made == JsonObj_init(c, parse(c, data))
       IN  /\ pc' = IF made.raised = NoExc THEN "built" ELSE "raised"
           /\ obj' = IF made.raised = NoExc THEN made.self ELSE None
    /\ cls' = c /\ raw' = data
    /\ UNCHANGED <<verr, out, vt, calls, union_has_name, dbvars, sysvars, doc, ret>>

\* variant: the exceptions are handed over to the caller and forgotten
Validate_forget ==
    /\ pc = "built" /\ calls < MaxCalls
    /\ LET res == validate(Val(obj))
       IN  /\ verr' = [st |-> res.st, err |-> res.err, x |-> res.x, examined |-> res.examined,
                        before |-> Val(obj)._exceptions]
           /\ obj' = [obj EXCEPT ![2]._exceptions = <<>>]
    /\ calls' = calls + 1
    /\ UNCHANGED <<pc, cls, raw, out, vt, union_has_name, dbvars, sysvars, doc, ret>>

\* obj.validate(): the call may append to obj._exceptions; verr keeps what
\* the call returned, the fields it examined and the exceptions before it
Validate ==
    /\ pc = "built" /\ calls < MaxCalls
    /\ LET res == validate(Val(obj))
       IN  /\ verr' = [st |-> res.st, err |-> res.err, x |-> res.x, examined |-> res.examined,
                        before |-> Val(obj)._exceptions]
           /\ obj' = [obj EXCEPT ![2]._exceptions = res.exc]
    /\ calls' = calls + 1
    /\ UNCHANGED <<pc, cls, raw, out, vt, union_has_name, dbvars, sysvars, doc, ret>>

\* obj.is_valid(); ret keeps what the call returned or raised, and what
\* validate() returns on the instance as the call found it
IsValid ==
    /\ pc = "built" /\ calls < MaxCalls
    /\ LET res == is_valid(Val(obj))
       IN  /\ ret' = [call |-> "is_valid", st |-> res.st, v |-> res.v, x |-> res.x,
                       err |-> validate(Val(obj)).err]
           /\ obj' = [obj EXCEPT ![2]._exceptions = res.exc]
    /\ calls' = calls + 1
    /\ UNCHANGED <<pc, cls, raw, verr, out, vt, union_has_name, dbvars, sysvars, doc>>

\* obj.valid()
Valid ==
    /\ pc = "built" /\ calls < MaxCalls
    /\ LET res == valid(Val(obj))
       IN  /\ ret' = [call |-> "valid", st |-> res.st, v |-> res.v, x |-> res.x,
                       err |-> validate(Val(obj)).err]
           /\ obj' = [obj EXCEPT ![2]._exceptions = res.exc]
    /\ calls' = calls + 1
    /\ UNCHANGED <<pc, cls, raw, verr, out, vt, union_has_name, dbvars, sysvars, doc>>

\* obj.json()
Json ==
    /\ pc = "built"
    /\ out' = json(Val(obj))
    /\ UNCHANGED <<pc, cls, raw, obj, verr, vt, calls, union_has_name, dbvars, sysvars, doc, ret>>

\* validate_type(o, otype, r) called directly
ValidateType(o, otype, r) ==
    /\ pc = "start"
    /\ vt' = [st |-> "done", obj |-> o, otype |-> otype, r |-> r, res |-> validate_type(o, otype, r)]
    /\ pc' = "typed"
    /\ UNCHANGED <<cls, raw, obj, verr, out, calls, union_has_name, dbvars, sysvars, doc, ret>>

\* type_to_json(otype, _types, toplvl=toplvl) as init_api_docs calls it, on
\* the table the calls before it have left
TypeToJson(otype, toplvl, hd) ==
    /\ pc \in {"start", "documented"} /\ doc.n < MaxDocs
    /\ doc.st = "none" \/ doc.hd = hd
    /\ LET res == type_to_json(otype, doc.types, TRUE, toplvl, 1, hd)
       IN  doc' = [st |-> res.st, n |-> doc.n + 1, hd |-> hd, types |-> res.types,
                   otype |-> otype, toplvl |-> toplvl, v |-> res.v, before |-> doc.types]
    /\ pc' = "documented"
    /\ UNCHANGED <<cls, raw, obj, verr, out, vt, calls, union_has_name, dbvars, sysvars, ret>>

Next ==
    \/ \E c \in TopClasses : \E j \in RawInputs(c) : Construct(c, j)
    \/ \E c \in TopClasses : \E data \in {Malformed, Text(PyInt(5)), Text(PyDict(<<>>))} : Parse(c, data)
    \/ Validate
    \/ Json
    \/ \E o \in VtValues : \E otype \in VtTypes : \E r \in BOOLEAN : ValidateType(o, otype, r)
    \/ \E otype \in DocTypes : \E toplvl \in BOOLEAN : \E hd \in HintsDepths : TypeToJson(otype, toplvl, hd)

Spec == Init /\ [][Next]_vars

\* the instances and the calls of is_valid() and valid() on them
NextValid ==
    \/ \E c \in TopClasses : \E j \in RawInputs(c) : Construct(c, j)
    \/ \E c \in TopClasses : \E data \in {Malformed, Text(PyInt(5)), Text(PyDict(<<>>))} : Parse(c, data)
    \/ IsValid
    \/ Valid

SpecValid == Init /\ [][NextValid]_vars

\* the instances of a class that declares a field both as T and as
\* JsonOpt[T] and of one whose fields nest lists, mappings and records,
\* their validate() and json()
ParseClasses == {"Twin", "Deep", "Norm"}
NextParse ==
    \/ \E c \in ParseClasses : \E j \in RawInputs(c) : Construct(c, j)
    \/ Validate
    \/ Json

SpecParse == Init /\ [][NextParse]_vars


(* ---------------------------- soft delete ------------------------------ *)
(* table_base.py, ObjMixin.  One Session works on a table of MaxRows       *)
(* records.  db.objs[id] is the deleted attribute of the session's object, *)
(* db.flushed[id] the column as the session's transaction holds it since   *)
(* the last flush, db.committed[id] the column as the last commit left it. *)
(* db.logs are the Log objects added to the session, the first db.saved of *)
(* them committed; db.commits counts the calls of db_sess.commit().        *)
\* Session.flush(): the pending changes reach the transaction
flush(s) == [s EXCEPT !.flushed = s.objs]
\* db_sess.commit(): flush, then the transaction is committed
commit(s) == [flush(s) EXCEPT !.committed = s.objs, !.saved = Len(s.logs), !.commits = @ + 1]

\* Log._get_obj_changes(record): the columns whose value differs from the
\* flushed one; deleted is the only column delete() and restore() set
_get_obj_changes(s, id) ==
    IF s.objs[id] # s.flushed[id] THEN << <<"deleted", s.flushed[id], s.objs[id]>> >> ELSE <<>>

\* Log(...) of Log.deleted and Log.restored, then db_sess.add(log) and the
\* commit asked for
Log_add(s, action, id, do_commit) ==
    LET log == [actionCode |-> action, tableName |-> "Item", recordId |-> id,
                changes |-> _get_obj_changes(s, id)]
        added == [s EXCEPT !.logs = Append(@, log)]
    IN  IF do_commit THEN commit(added) ELSE added
\* Log.deleted(record, actor, now=now, commit=commit, db_sess=db_sess)
Log_deleted(s, id, do_commit) == Log_add(s, "deleted", id, do_commit)
\* Log.restored(record, actor, now=now, commit=commit, db_sess=db_sess)
Log_restored(s, id, do_commit) == Log_add(s, "restored", id, do_commit)

\* variant: the hook is run for its effects and its answer is dropped
delete_anyway(s, id, allowed, do_commit, table) ==
    LET marked == [s EXCEPT !.objs[id] = TRUE]
    IN  IF table THEN [s |-> Log_deleted(marked, id, do_commit), ret |-> TRUE]
        ELSE [s |-> IF do_commit THEN commit(marked) ELSE marked, ret |-> TRUE]

\* ObjMixin.delete(self, actor, commit): allowed is what self._on_delete
\* returns, table whether self is a TableBase
delete(s, id, allowed, do_commit, table) ==
    IF ~allowed THEN [s |-> s, ret |-> FALSE]
    ELSE LET marked == [s EXCEPT !.objs[id] = TRUE]
         IN  IF table THEN [s |-> Log_deleted(marked, id, do_commit), ret |-> TRUE]
             ELSE [s |-> IF do_commit THEN commit(marked) ELSE marked, ret |-> TRUE]

\* ObjMixin.restore(self, actor, commit): allowed is what self._on_restore
\* returns
restore(s, id, allowed, do_commit, table) ==
    IF ~allowed THEN [s |-> s, ret |-> FALSE]
    ELSE LET marked == [s EXCEPT !.objs[id] = FALSE]
         IN  IF table THEN [s |-> Log_restored(marked, id, do_commit), ret |-> TRUE]
             ELSE [s |-> IF do_commit THEN commit(marked) ELSE marked, ret |-> TRUE]

\* variant: the filter on deleted is left out
query_unfiltered(s, includeDeleted) == [s |-> flush(s), ids |-> Ids]

\* ObjMixin.query(db_sess, includeDeleted), once it is run: the session
\* flushes before it selects (autoflush), and the filter is on the column
query(s, includeDeleted) ==
    [s |-> flush(s), ids |-> {id \in Ids : includeDeleted \/ flush(s).flushed[id] = FALSE}]

\* ObjMixin.all(db_sess, includeDeleted)
all(s, includeDeleted) == query(s, includeDeleted)
\* ObjMixin.get(db_sess, id, includeDeleted): .filter(cls.id == id).first()
get(s, id, includeDeleted) ==
    [s |-> query(s, includeDeleted).s, ids |-> query(s, includeDeleted).ids \cap {id}]

\* record.delete(actor, commit); the hook's answer is the override's choice
Delete(id, allowed, do_commit) ==
    /\ Len(hist) < MaxOps
    /\ db' = delete(db, id, allowed, do_commit, is_table).s
    /\ last' = [st |-> "done", op |-> "delete", id |-> id, allowed |-> allowed, commit |-> do_commit,
                ret |-> delete(db, id, allowed, do_commit, is_table).ret, before |-> db,
                after |-> delete(db, id, allowed, do_commit, is_table).s]
    /\ hist' = Append(hist, [op |-> "delete", id |-> id, allowed |-> allowed])
    /\ UNCHANGED <<objvars, sysvars, is_table, found, sdb, sess>>

\* record.restore(actor, commit)
Restore(id, allowed, do_commit) ==
    /\ Len(hist) < MaxOps
    /\ db' = restore(db, id, allowed, do_commit, is_table).s
    /\ last' = [st |-> "done", op |-> "restore", id |-> id, allowed |-> allowed, commit |-> do_commit,
                ret |-> restore(db, id, allowed, do_commit, is_table).ret, before |-> db,
                after |-> restore(db, id, allowed, do_commit, is_table).s]
    /\ hist' = Append(hist, [op |-> "restore", id |-> id, allowed |-> allowed])
    /\ UNCHANGED <<objvars, sysvars, is_table, found, sdb, sess>>

\* Item.all(db_sess, includeDeleted): found keeps the records returned, the
\* deleted attribute each has, and the attribute of every record at the call
All(includeDeleted) ==
    /\ db' = all(db, includeDeleted).s
    /\ found' = [st |-> "done", call |-> "all", id |-> 0, includeDeleted |-> includeDeleted,
                 ids |-> all(db, includeDeleted).ids,
                 deleted |-> [id \in all(db, includeDeleted).ids |-> db.objs[id]], flags |-> db.objs]
    /\ UNCHANGED <<objvars, sysvars, is_table, hist, last, sdb, sess>>

\* Item.get(db_sess, id, includeDeleted)
Get(id, includeDeleted) ==
    /\ db' = get(db, id, includeDeleted).s
    /\ found' = [st |-> "done", call |-> "get", id |-> id, includeDeleted |-> includeDeleted,
                 ids |-> get(db, id, includeDeleted).ids,
                 deleted |-> [i \in get(db, id, includeDeleted).ids |-> db.objs[i]], flags |-> db.objs]
    /\ UNCHANGED <<objvars, sysvars, is_table, hist, last, sdb, sess>>

\* the record class is a TableBase or only an ObjMixin; no JsonObj is made
InitTable ==
    /\ pc = "start" /\ cls = "" /\ raw = None /\ obj = None
    /\ verr = NoResult /\ out = None /\ vt = NoResult /\ calls = 0
    /\ union_has_name = TRUE
    /\ doc = [st |-> "none", n |-> 0, hd |-> 0, types |-> <<>>]
    /\ ret = NoResult
    /\ is_table \in BOOLEAN /\ db = NewDb /\ hist = <<>> /\ last = NoResult /\ found = NoResult
    /\ sdb = NewSingleton /\ sess = [s \in Sessions |-> NewSession]
    /\ app = NoResult /\ web = NoResult /\ logf = NoResult

NextTable ==
    \/ \E id \in Ids : \E allowed \in BOOLEAN : \E do_commit \in BOOLEAN : Delete(id, allowed, do_commit)
    \/ \E id \in Ids : \E allowed \in BOOLEAN : \E do_commit \in BOOLEAN : Restore(id, allowed, do_commit)
    \/ \E includeDeleted \in BOOLEAN : All(includeDeleted)
    \/ \E id \in Ids : \E includeDeleted \in BOOLEAN : Get(id, includeDeleted)

SpecTable == InitTable /\ [][NextTable]_vars

(* ---------------------------- singleton -------------------------------- *)
(* table_base.py, SingletonMixin.  sdb.rows are the ids of the committed   *)
(* rows of the table, sdb.inits counts the runs of init().  A session has  *)
(* the object pending (added, no INSERT yet), in its transaction (tx:      *)
(* inserted, not committed) or loaded (have: in its identity map).  A call *)
(* of get is two steps, the lookup and the creation, each with one round   *)
(* trip to the database; the steps of two sessions interleave.             *)

\* the INSERT of row _ID by session s fails: the primary key is unique
Conflict(s) == _ID \in sdb.rows \/ \E o \in Sessions \ {s} : sess[o].tx

\* table_base.py 216-218: obj = db_sess.get(cls, cls._ID), returned if found.
\* The identity map is looked up first; else the session flushes its pending
\* object and selects the row
GetLookup(s, do_commit) ==
    /\ sess[s].pc = "idle" /\ sess[s].gets < MaxGets
    /\ sess' = [sess EXCEPT ![s] =
            IF sess[s].have THEN [@ EXCEPT !.gets = @ + 1, !.res = "row"]
            ELSE IF sess[s].pending
            THEN IF Conflict(s)
                 THEN [@ EXCEPT !.gets = @ + 1, !.res = "raise", !.pc = "failed"]
                 ELSE [@ EXCEPT !.gets = @ + 1, !.res = "row", !.pending = FALSE, !.tx = TRUE,
                                !.have = TRUE]
            ELSE IF _ID \in sdb.rows THEN [@ EXCEPT !.gets = @ + 1, !.res = "row", !.have = TRUE]
            ELSE [@ EXCEPT !.gets = @ + 1, !.res = "none", !.pc = "missing", !.commit = do_commit]]
    /\ UNCHANGED <<objvars, sysvars, is_table, db, hist, last, found, sdb>>

\* table_base.py 219-225: obj = cls(), obj.id = cls._ID, obj.init(),
\* db_sess.add(obj), and the commit asked for
GetCreate(s) ==
    /\ sess[s].pc = "missing"
    /\ IF ~sess[s].commit
       THEN /\ sess' = [sess EXCEPT ![s].pc = "idle", ![s].res = "row", ![s].pending = TRUE]
            /\ sdb' = [sdb EXCEPT !.inits = @ + 1]
       ELSE IF Conflict(s)
       THEN /\ sess' = [sess EXCEPT ![s].pc = "failed", ![s].res = "raise", ![s].pending = TRUE]
            /\ sdb' = [sdb EXCEPT !.inits = @ + 1]
       ELSE /\ sess' = [sess EXCEPT ![s].pc = "idle", ![s].res = "row", ![s].have = TRUE]
            /\ sdb' = [rows |-> sdb.rows \cup {_ID}, inits |-> sdb.inits + 1]
    /\ UNCHANGED <<objvars, sysvars, is_table, db, hist, last, found>>

\* the table is empty and no session has called get
InitSingleton ==
    /\ pc = "start" /\ cls = "" /\ raw = None /\ obj = None
    /\ verr = NoResult /\ out = None /\ vt = NoResult /\ calls = 0
    /\ union_has_name = TRUE
    /\ doc = [st |-> "none", n |-> 0, hd |-> 0, types |-> <<>>]
    /\ ret = NoResult
    /\ is_table = TRUE /\ db = NewDb /\ hist = <<>> /\ last = NoResult /\ found = NoResult
    /\ sdb = NewSingleton /\ sess = [s \in Sessions |-> NewSession]
    /\ app = NoResult /\ web = NoResult /\ logf = NoResult

NextSingleton ==
    \/ \E s \in Sessions : \E do_commit \in BOOLEAN : GetLookup(s, do_commit)
    \/ \E s \in Sessions : GetCreate(s)

SpecSingleton == InitSingleton /\ [][NextSingleton]_vars

(* ---------------------------- startup ---------------------------------- *)
\* no JsonObj is built, no table is touched
Idle ==
    /\ pc = "start" /\ cls = "" /\ raw = None /\ obj = None
    /\ verr = NoResult /\ out = None /\ vt = NoResult /\ calls = 0
    /\ union_has_name = TRUE
    /\ doc = [st |-> "none", n |-> 0, hd |-> 0, types |-> <<>>]
    /\ ret = NoResult
    /\ is_table = TRUE /\ db = NewDb /\ hist = <<>> /\ last = NoResult /\ found = NoResult
    /\ sdb = NewSingleton /\ sess = [s \in Sessions |-> NewSession]

\* app.py 189: setup_only = config.THREADED and "--setup" in sys.argv
setup_only == app.THREADED /\ app.setup

\* variant: the database is set up in every mode but the plain threaded one
SetsUp_always == TRUE
\* app.py 191: if not config.THREADED or setup_only
SetsUp == ~app.THREADED \/ setup_only

\* app.py 210-226: the calls init_database makes, in order, on a database
\* that is or is not yet initialized
init_database_calls ==
    <<"global_init", "is_initialized", "update_roles_permissions">>
    \o (IF ~app.initialized
        THEN <<"_create_admin">>
             \o (IF app.init_db THEN <<"init_db">> ELSE <<>>)
             \o (IF app.DEV_MODE /\ app.init_dev_values THEN <<"init_dev_values">> ELSE <<>>)
             \o <<"mark_as_initialized">>
        ELSE <<>>)
    \o (IF ~app.DEV_MODE THEN <<"change_admin_default_pwd">> ELSE <<>>)
\* the calls of init_database that run code of the caller, and the calls
\* made up to the one that raises
Callbacks == {"init_db", "init_dev_values"}
UpTo(q, i) == SubSeq(q, 1, i)

\* run(run_server, init_db, init_dev_values), app.py 182-191
Run ==
    /\ app.pc = "called"
    /\ app' = [app EXCEPT !.pc = IF SetsUp THEN (IF app.use_alembic THEN "alembic" ELSE "init_database")
                                 ELSE "global_init"]
    /\ UNCHANGED <<objvars, dbvars, web, logf>>

\* app.py 193-194: alembic_upgrade(config.DEV_MODE)
AlembicUpgrade ==
    /\ app.pc = "alembic"
    /\ app' = [app EXCEPT !.pc = "init_database", !.done = Append(@, "alembic_upgrade")]
    /\ UNCHANGED <<objvars, dbvars, web, logf>>

\* app.py 195-197 with 206-226: init_database(init_db, init_dev_values)
\* returns, and run() returns after it when setup_only
InitDatabase ==
    /\ app.pc = "init_database"
    /\ app' = [app EXCEPT !.pc = IF setup_only THEN "returned" ELSE "global_init",
                          !.done = @ \o init_database_calls \o <<"init_database">>,
                          !.initialized = TRUE]
    /\ UNCHANGED <<objvars, dbvars, web, logf>>

\* app.py 217-222: a callback the caller gave raises; the exception leaves
\* init_database and run()
InitDatabaseRaises ==
    /\ app.pc = "init_database"
    /\ \E i \in 1..Len(init_database_calls) :
          /\ init_database_calls[i] \in Callbacks
          /\ app' = [app EXCEPT !.pc = "raised", !.done = @ \o UpTo(init_database_calls, i)]
    /\ UNCHANGED <<objvars, dbvars, web, logf>>

\* app.py 199-200: db_session.global_init(config.DEV_MODE); if run_server
GlobalInit ==
    /\ app.pc = "global_init"
    /\ app' = [app EXCEPT !.pc = IF app.run_server THEN "app.run" ELSE "returned",
                          !.done = Append(@, "global_init")]
    /\ UNCHANGED <<objvars, dbvars, web, logf>>

\* app.py 201-204: app.run(debug=config.DEV_MODE, port=port, host=host)
AppRun ==
    /\ app.pc = "app.run"
    /\ app' = [app EXCEPT !.pc = "serving", !.done = Append(@, "app.run")]
    /\ UNCHANGED <<objvars, dbvars, web, logf>>

\* the configuration, the command line, the arguments of run() and the
\* database it finds
InitRun ==
    /\ Idle /\ web = NoResult /\ logf = NoResult
    /\ app \in [pc : {"called"}, THREADED : BOOLEAN, setup : BOOLEAN, use_alembic : BOOLEAN,
                DEV_MODE : BOOLEAN, run_server : BOOLEAN, init_db : BOOLEAN,
                init_dev_values : BOOLEAN, initialized : BOOLEAN, done : {<<>>}]
NextRun == Run \/ AlembicUpgrade \/ InitDatabase \/ InitDatabaseRaises \/ GlobalInit \/ AppRun
SpecRun == InitRun /\ [][NextRun]_vars

(* ---------------------------- sessions --------------------------------- *)
\* the decorators of use_db_session.py
Wrappers == {"use_db_session", "use_db_sess"}
\* g.db_session when no attribute is set
NoSession == 0

\* variant: the wrapper never looks for a session in g
reuses_never == FALSE
\* use_db_session.py 16-17 and 39-40:
\* has_ctx and "db_session" in g and g.db_session is not None
reuses == web.has_ctx /\ web.g # NoSession

\* use_db_session.py 15-24 and 38-47: the wrapper is called and calls fn,
\* with the session of g or with one it creates and, in a request context,
\* stores in g
Call(w) ==
    /\ ~web.over /\ Len(web.stack) < MaxNest
    /\ IF reuses
       THEN web' = [web EXCEPT !.stack = Append(@, [w |-> w, own |-> FALSE, sess |-> web.g])]
       ELSE /\ web.created < MaxSess
            /\ web' = [web EXCEPT !.created = @ + 1,
                                  !.g = IF web.has_ctx THEN web.created + 1 ELSE @,
                                  !.stack = Append(@, [w |-> w, own |-> TRUE, sess |-> web.created + 1])]
    /\ UNCHANGED <<objvars, dbvars, app, logf>>

\* use_db_session.py 18, 24-27 and 41, 47-50: fn returns or raises.  The
\* wrapper that created the session removes it from g in its finally clause
\* and the with statement closes it; the exception, if any, goes on to the
\* caller, which may handle it
Return(raised) ==
    /\ ~web.over /\ Len(web.stack) > 0
    /\ LET top == web.stack[Len(web.stack)]
       IN  web' = [web EXCEPT !.stack = SubSeq(@, 1, Len(@) - 1),
                              !.g = IF top.own /\ web.has_ctx THEN NoSession ELSE @,
                              !.closed = IF top.own THEN @ \cup {top.sess} ELSE @,
                              !.raised = raised]
    /\ UNCHANGED <<objvars, dbvars, app, logf>>

\* app.py 297-305: teardown pops g.db_session and closes it if it is there
Teardown ==
    /\ ~web.over /\ web.has_ctx /\ web.stack = <<>>
    /\ web' = [web EXCEPT !.over = TRUE, !.g = NoSession,
                          !.closed = IF web.g # NoSession THEN @ \cup {web.g} ELSE @]
    /\ UNCHANGED <<objvars, dbvars, app, logf>>

\* a request context, or a call outside any
InitWeb ==
    /\ Idle /\ app = NoResult /\ logf = NoResult
    /\ web \in [has_ctx : BOOLEAN, g : {NoSession}, created : {0}, closed : {{}}, stack : {<<>>},
                raised : {FALSE}, over : {FALSE}]
NextWeb == (\E w \in Wrappers : Call(w)) \/ (\E raised \in BOOLEAN : Return(raised)) \/ Teardown
SpecWeb == InitWeb /\ [][NextWeb]_vars

(* ---------------------------- log files -------------------------------- *)
\* a log file is named by its number: 0 is the base path fpath, i >= 1 is
\* name.i.ext; fs is the set of the files that exist
BasePath == 0
RECURSIVE get_log_fpath(_, _, _)
RECURSIVE get_log_fpath_all(_, _, _)

\* variant: the rollover of the standard handler, which always starts
\* name.1.ext anew
get_log_fpath_one(fs, i, next) == IF next THEN 1 ELSE BasePath
\* logger.py 109-121: get_log_fpath(fpath, next), i being the counter of the
\* loop before its increment
get_log_fpath(fs, i, next) ==
    IF i + 1 \notin fs
    THEN IF next THEN i + 1
         ELSE IF i = 0 THEN BasePath ELSE i
    ELSE get_log_fpath(fs, i + 1, next)

\* logger.py 124-134: get_log_fpath_all(fpath), r being the list so far
get_log_fpath_all(fs, i, r) ==
    IF i + 1 \notin fs THEN r ELSE get_log_fpath_all(fs, i + 1, Append(r, i + 1))

\* logging.handlers.RotatingFileHandler.shouldRollover: the record would
\* take the file to maxBytes
shouldRollover(size) == logf.len[logf.stream] + size >= MaxBytes
\* the sizes of the formatted records
Sizes == 1..(MaxBytes - 1)

\* logger.py 88-90 and 99-106: the handler is created and opens its stream
\* in mode "a", which creates the file if it is missing
NewHandler ==
    /\ LET filename == get_log_fpath(logf.fs, 0, FALSE)
       IN  logf' = [logf EXCEPT !.stream = filename, !.fs = @ \cup {filename},
                                !.before = logf.fs, !.op = "open"]
    /\ UNCHANGED <<objvars, dbvars, app, web>>

\* RotatingFileHandler.emit with logger.py 92-106: doRollover, if the
\* record does not fit, opens the next file and closes the stream; the
\* record is then written to the stream
Emit(size) ==
    /\ logf.stream # -1
    /\ IF shouldRollover(size)
       THEN LET filename == get_log_fpath(logf.fs, 0, TRUE)
            IN  /\ filename <= MaxFiles
                /\ logf' = [logf EXCEPT !.stream = filename, !.fs = @ \cup {filename},
                                        !.len[filename] = @ + size,
                                        !.before = logf.fs, !.op = "rollover"]
       ELSE logf' = [logf EXCEPT !.len[logf.stream] = @ + size, !.before = logf.fs, !.op = "emit"]
    /\ UNCHANGED <<objvars, dbvars, app, web>>

\* get_log_fpath_all(fpath)
GetLogFpathAll ==
    /\ logf' = [logf EXCEPT !.all = get_log_fpath_all(logf.fs, 0, <<BasePath>>),
                            !.before = logf.fs, !.op = "all"]
    /\ UNCHANGED <<objvars, dbvars, app, web>>

\* the log folder as a start finds it: any of the rotated files may exist,
\* each with one record
InitLog ==
    /\ Idle /\ app = NoResult /\ web = NoResult
    /\ \E fs \in SUBSET (0..MaxFiles) :
          logf = [fs |-> fs, len |-> [i \in 0..MaxFiles |-> IF i \in fs THEN 1 ELSE 0],
                  stream |-> -1, all |-> <<>>, before |-> fs, op |-> "none"]
NextLog == NewHandler \/ (\E size \in Sizes : Emit(size)) \/ GetLogFpathAll
SpecLog == InitLog /\ [][NextLog]_vars

(* ---------------------------- properties ------------------------------- *)
FieldNames(c) == [i \in 1..Len(type_hints(c)) |-> type_hints(c)[i][1]]
IsObject(j) == TypeOf(j) = "dict"
\* the raw value the constructor was given
Given == IF TypeOf(raw) = "text" THEN parse(cls, raw) ELSE raw
\* validate() has returned no error, json() has run
ValidatedOk == pc = "built" /\ verr.st = "return" /\ verr.err = None
Serialized == pc = "built" /\ TypeOf(out) = "dict"
HookFree == {"SomeDict2", "SomeDict", "AB", "Named", "Loose", "Objs", "Pick"}

RECURSIVE SameJson(_, _)
\* structural equality of JSON values: the keys of an object are unordered
SameJson(a, b) ==
    /\ TypeOf(a) = TypeOf(b)
    /\ CASE TypeOf(a) = "dict" ->
              /\ DictKeys(Val(a)) = DictKeys(Val(b))
              /\ \A key \in DictKeys(Val(a)) : SameJson(DictVal(Val(a), key), DictVal(Val(b), key))
         [] TypeOf(a) = "list" ->
              /\ Len(Val(a)) = Len(Val(b))
              /\ \A i \in 1..Len(Val(a)) : SameJson(Val(a)[i], Val(b)[i])
         [] OTHER -> a = b

RECURSIVE RoundTripValue(_, _)
RECURSIVE RoundTripFields(_, _, _)
\* what a valid raw object d comes back as: the schema's fields in schema
\* order, an absent field by its default if it has one, a datetime string in
\* the serializer's format, nested records by the same rule
RoundTripFields(c, d, i) ==
    IF i > Len(type_hints(c)) THEN <<>>
    ELSE (IF type_hints(c)[i][1] \in DictKeys(d)
          THEN << <<type_hints(c)[i][1], RoundTripValue(type_hints(c)[i][2], DictVal(d, type_hints(c)[i][1]))>> >>
          ELSE IF type_hints(c)[i][1] \in DictKeys(class_attrs(c))
          THEN << <<type_hints(c)[i][1], DictVal(class_attrs(c), type_hints(c)[i][1])>> >>
          ELSE <<>>) \o RoundTripFields(c, d, i + 1)
RoundTripValue(t, val) ==
    IF IsJsonObjClass(t)
    THEN PyDict(RoundTripFields(t[2], IF IsObject(val) THEN Val(val) ELSE <<>>, 1))
    ELSE IF get_origin(t) = "list" /\ TypeOf(val) = "list"
    THEN PyList([i \in 1..Len(Val(val)) |-> RoundTripValue(get_args(t)[1], Val(val)[i])])
    ELSE IF t = datetime /\ TypeOf(val) = "str" /\ Val(val) \in IsoStrings
    THEN PyStr("2020-01-01T00:00:00")
    ELSE val

C2_AllUndefined ==
    (pc \in {"built", "raised"} /\ ~IsObject(Given))
        => pc = "built" /\ \A f \in Fields(cls) : Val(obj).attrs[f] = undefined

\* C2 (amended): building an instance from a raw value that is no object
\* returns normally with no recorded exception; every schema field without a
\* class default is undefined and a field with a default holds the default
C2_NonObject ==
    (pc \in {"built", "raised"} /\ ~IsObject(Given))
        => /\ pc = "built"
           /\ Val(obj)._exceptions = <<>>
           /\ DOMAIN Val(obj).attrs = Fields(cls)
           /\ \A f \in Fields(cls) :
                Val(obj).attrs[f] = IF f \in DictKeys(class_attrs(cls))
                                    THEN DictVal(class_attrs(cls), f) ELSE undefined

C2_Witness == pc = "built" /\ raw = PyList(<<PyInt(1)>>) /\ cls = "SomeDict2"

\* the exceptions the hook of class c raises on the items of d, in order
RECURSIVE HookFailures(_, _, _)
HookFailures(c, d, i) ==
    IF i > Len(d) THEN <<>>
    ELSE (IF _parse(c, d[i][1], d[i][2]).st = "raise"
          THEN << <<d[i][1], _parse(c, d[i][1], d[i][2]).x>> >> ELSE <<>>) \o HookFailures(c, d, i + 1)

\* C3: a hook that raises for a key does not end the construction; the
\* exception is recorded under the key the hook was called with, and every
\* attribute is assigned as with the same hook giving up quietly on that key
C3_HookFailure ==
    (pc \in {"built", "raised"} /\ cls = "Mapped" /\ IsObject(Given) /\ calls = 0)
        => /\ pc = "built"
           /\ Val(obj)._exceptions = HookFailures("Mapped", Val(Given), 1)
           /\ Val(obj).attrs = Val(JsonObj_init("MappedQuiet", Given).self).attrs

C3_Witness ==
    /\ pc = "built" /\ cls = "Mapped" /\ calls = 0
    /\ Len(Val(obj)._exceptions) = 2
    /\ Val(obj)._exceptions[1][1] = "to"
    /\ Val(obj).attrs["frm"] = PyInt(1)

\* the raw object of C4: a holds no integer, b holds 5
C4_Case ==
    /\ pc = "built" /\ cls = "AB" /\ IsObject(Given)
    /\ {"a", "b"} \subseteq DictKeys(Val(Given))
    /\ TypeOf(DictVal(Val(Given), "a")) # "int"
    /\ DictVal(Val(Given), "b") = PyInt(5)

\* C4 (as stated): b = 5 and the instance's exception list has an entry for a
C4_RecordedException ==
    C4_Case => /\ Val(obj).attrs["b"] = PyInt(5)
               /\ \E i \in 1..Len(Val(obj)._exceptions) : Val(obj)._exceptions[i][1] = "a"

\* C4 (amended): b = 5, a holds the raw value as it is, no exception is
\* recorded, and validate() returns the type error of a
C4_PartialFailure ==
    C4_Case => /\ Val(obj).attrs["b"] = PyInt(5)
               /\ Val(obj).attrs["a"] = DictVal(Val(Given), "a")
               /\ Val(obj)._exceptions = <<>>
               /\ (verr.st # "none" => verr.st = "return" /\ verr.err = PyStr("a is not int"))

C4_Witness == C4_Case /\ verr.st # "none" /\ DictVal(Val(Given), "a") = PyStr("bad-int")

\* C5: validate() on an instance with recorded exceptions returns the error
\* of the first of them, its key and the underlying error, whatever the
\* loop over the fields has found
C5_ExceptionFirst ==
    (pc = "built" /\ verr.st # "none" /\ Len(Val(obj)._exceptions) > 0)
        => LET key == Val(obj)._exceptions[1][1]
               x == Val(obj)._exceptions[1][2]
           IN  /\ verr.st = "return"
               /\ verr.err = IF key \in Fields(cls)
                             THEN PyStr(key \o " is not " \o TypeName(HintOf(cls, key)) \o ": " \o x.msg)
                             ELSE PyStr(key \o ": " \o x.msg)

\* validate() has run on an instance with a recorded exception
Excepted == pc = "built" /\ verr.st # "none" /\ Len(Val(obj)._exceptions) > 0
\* it raised for want of the name of a union
C5_Unnamed == Excepted /\ verr.st = "raise" /\ verr.x = NoNameError
\* apart from that, validate() returns the error of the first exception
C5_ExceptionFirstNamed == ~C5_Unnamed => C5_ExceptionFirst

\* the field of the first exception also fails the check of its type
C5_Witness ==
    /\ pc = "built" /\ verr.st # "none" /\ cls = "Mapped"
    /\ Len(Val(obj)._exceptions) > 0
    /\ Val(obj)._exceptions[1][1] = "rect"
    /\ Val(obj).attrs["rect"] = PyStr("oops")
    /\ Val(obj).attrs["frm"] = PyStr("x")

\* the result of validating field i of the instance on its own
FieldResult(i) == validate_type(Val(obj).attrs[type_hints(cls)[i][1]], type_hints(cls)[i][2], TRUE)
FieldsWith(S) == {i \in 1..Len(type_hints(cls)) : FieldResult(i).st \in S}
Least(S) == CHOOSE i \in S : \A j \in S : i <= j
\* the error validate() makes of a recorded exception e
ExceptionError(e) ==
    IF e[1] \in Fields(cls)
    THEN PyStr(e[1] \o " is not " \o TypeName(HintOf(cls, e[1])) \o ": " \o e[2].msg)
    ELSE PyStr(e[1] \o ": " \o e[2].msg)
RECURSIVE RaisedBy(_, _)
\* the exceptions raised by the fields i..n, in order
RaisedBy(i, n) ==
    IF i > n THEN <<>>
    ELSE (IF FieldResult(i).st = "raise" THEN << <<type_hints(cls)[i][1], FieldResult(i).x>> >> ELSE <<>>)
         \o RaisedBy(i + 1, n)
Validated == pc = "built" /\ verr.st # "none"

\* C6 (as stated): validate() stops at the first field that fails, its
\* error is the error of that field, and it returns no error iff every field
\* conforms to its type
C6_FirstFailingField ==
    (Validated /\ verr.st = "return")
        => /\ FieldsWith({"err", "raise"}) # {}
                => /\ verr.examined = SubSeq(FieldNames(cls), 1, Least(FieldsWith({"err", "raise"})))
                   /\ FieldResult(Least(FieldsWith({"err", "raise"}))).st = "err"
                        => verr.err = PyStr(type_hints(cls)[Least(FieldsWith({"err", "raise"}))][1]
                                            \o Val(FieldResult(Least(FieldsWith({"err", "raise"}))).err))
           /\ verr.err = None <=> FieldsWith({"err", "raise"}) = {}

\* C6 (amended): validate() examines the fields in schema order; the first
\* field whose validation returns an error ends the examination, a field
\* whose validation raises is recorded as an exception and the examination
\* goes on.  When validate() returns, the error is that of the first recorded
\* exception if there is one, else that of the field that ended the
\* examination, and there is no error iff no exception is recorded and every
\* field conforms to its type
C6_ShortCircuit ==
    Validated
        => LET stop == IF FieldsWith({"err"}) = {} THEN Len(type_hints(cls))
                       ELSE Least(FieldsWith({"err"}))
           IN  /\ verr.examined = SubSeq(FieldNames(cls), 1, stop)
               /\ Val(obj)._exceptions = verr.before \o RaisedBy(1, stop)  \/ calls > 1
               /\ verr.st = "return"
                    => /\ verr.err = IF Val(obj)._exceptions # <<>>
                                     THEN ExceptionError(Val(obj)._exceptions[1])
                                     ELSE IF FieldsWith({"err"}) # {}
                                     THEN PyStr(type_hints(cls)[stop][1] \o Val(FieldResult(stop).err))
                                     ELSE None
                       /\ verr.err = None
                            <=> (Val(obj)._exceptions = <<>> /\ FieldsWith({"err", "raise"}) = {})

\* a field raises and a later field is examined
C6_Witness ==
    /\ Validated /\ cls = "SomeDict" /\ verr.st = "return"
    /\ FieldResult(2).st = "raise" /\ FieldResult(3).st = "err"
    /\ verr.examined = <<"name", "keys", "v">>

\* the raw object of C7: objs is a list, its elements are numbered from 0
C7_Case ==
    /\ Validated /\ cls = "Objs" /\ IsObject(Given)
    /\ "objs" \in DictKeys(Val(Given))
    /\ TypeOf(DictVal(Val(Given), "objs")) = "list"
C7_Objs == Val(DictVal(Val(Given), "objs"))
C7_HasName(el) == IsObject(el) /\ "name" \in DictKeys(Val(el))
C7_Bad == {i \in 1..Len(C7_Objs) :
             ~C7_HasName(C7_Objs[i]) \/ TypeOf(DictVal(Val(C7_Objs[i]), "name")) # "str"}

\* C7 (as stated): the error is `objs[i].name is not string` for the first
\* element i whose name is no string
C7_NotString ==
    (C7_Case /\ C7_Bad # {})
        => verr.err = PyStr("objs[" \o ToString(Least(C7_Bad) - 1) \o "].name is not string")

\* C7 (amended): the error is `objs[i].name is not str` for the first element
\* i whose name is no string, `objs[i].name is undefined` when that element
\* has no name, and there is no error when every name is a string
C7_DepthPrefixed ==
    C7_Case
        => verr.err = IF C7_Bad = {} THEN None
                      ELSE IF C7_HasName(C7_Objs[Least(C7_Bad)])
                      THEN PyStr("objs[" \o ToString(Least(C7_Bad) - 1) \o "].name is not str")
                      ELSE PyStr("objs[" \o ToString(Least(C7_Bad) - 1) \o "].name is undefined")

C7_Witness ==
    /\ C7_Case /\ Len(C7_Objs) = 2 /\ C7_Bad = {2}
    /\ verr.err = PyStr("objs[1].name is not str")

TypeChecked == pc = "typed" /\ vt.st = "done"
\* the members of the union vt.otype that accept vt.obj
Accepting == {i \in 1..Len(get_args(vt.otype)) :
                validate_type(vt.obj, get_args(vt.otype)[i], vt.r).st = "ok"}

\* C8: a union validates against its members in order and stops at the first
\* that accepts; it succeeds iff some member accepts, and its error lists the
\* names of the members
C8_UnionOrder ==
    (TypeChecked /\ get_origin(vt.otype) = "Union")
        => IF Accepting # {}
           THEN /\ vt.res.st = "ok"
                /\ vt.res.tried = SubSeq(get_args(vt.otype), 1, Least(Accepting))
           ELSE /\ vt.res.st = "err"
                /\ vt.res.tried = get_args(vt.otype)
                /\ vt.res.err = PyStr(" is not " \o JoinNames(get_args(vt.otype), 1))

\* both members accept the value and only the first is tried
C8_Witness ==
    /\ TypeChecked /\ vt.otype = UnionOf(<<ObjT("Loose"), ObjT("Named")>>)
    /\ Accepting = {1, 2} /\ vt.res.tried = <<ObjT("Loose")>>

\* C9: True and False validate against bool and against no other primitive
C9_BoolOnly ==
    (TypeChecked /\ TypeOf(vt.obj) = "bool" /\ vt.otype \in PrimTypes)
        => (vt.res.st = "ok" <=> vt.otype = bool) /\ vt.res.st \in {"ok", "err"}

C9_Witness ==
    /\ TypeChecked /\ vt.obj = PyBool(TRUE) /\ vt.otype = int
    /\ vt.res.err = PyStr(" is not int")

\* field i has no default, is not optional and is absent from the input
RequiredAbsent(i) ==
    /\ get_origin(type_hints(cls)[i][2]) # "JsonOpt"
    /\ type_hints(cls)[i][1] \notin DictKeys(class_attrs(cls))
    /\ ~IsObject(Given) \/ type_hints(cls)[i][1] \notin DictKeys(Val(Given))
\* validate() reaches field i: no exception is recorded and the fields
\* before it conform
Reached(i) ==
    /\ Validated /\ cls \in HookFree /\ Val(obj)._exceptions = <<>>
    /\ \A j \in 1..(i - 1) : FieldResult(j).st = "ok"

\* C10 (as stated): undefined validates against JsonOpt[T], any other value
\* as against T, and a required field absent from the input makes validate()
\* return `<field> is undefined`
C10_RequiredUndefined ==
    Validated
        => \A i \in 1..Len(type_hints(cls)) :
                (Reached(i) /\ RequiredAbsent(i))
                    => verr.err = PyStr(type_hints(cls)[i][1] \o " is undefined")

\* C10 (amended): undefined validates against JsonOpt[T] and any other value
\* validates against JsonOpt[T] iff it validates against T; a required field
\* declared int, float, bool, str, None or datetime and absent from the input
\* makes validate() return `<field> is undefined` when it is the first field
\* that fails and no exception is recorded
C10_Optional ==
    /\ (TypeChecked /\ get_origin(vt.otype) = "JsonOpt")
            => IF vt.obj = undefined THEN vt.res.st = "ok"
               ELSE vt.res.st = "ok" <=> validate_type(vt.obj, get_args(vt.otype)[1], vt.r).st = "ok"
    /\ Validated
            => \A i \in 1..Len(type_hints(cls)) :
                    (Reached(i) /\ RequiredAbsent(i)
                        /\ type_hints(cls)[i][2] \in (PrimTypes \cup {datetime}))
                    => verr.err = PyStr(type_hints(cls)[i][1] \o " is undefined")

C10_Witness == TypeChecked /\ vt.obj = undefined /\ vt.otype = JsonOpt(int) /\ vt.res.st = "ok"
C10_WitnessRequired ==
    /\ Validated /\ cls = "AB" /\ IsObject(Given) /\ DictKeys(Val(Given)) = {"a"}
    /\ verr.err = PyStr("b is undefined")

RECURSIVE HoldsUndefined(_)
\* val is undefined or holds it, at any depth through lists and objects
HoldsUndefined(val) ==
    \/ val = undefined
    \/ TypeOf(val) = "list" /\ \E i \in 1..Len(Val(val)) : HoldsUndefined(Val(val)[i])
    \/ TypeOf(val) = "dict" /\ \E i \in 1..Len(Val(val)) : HoldsUndefined(Val(val)[i][2])
\* the elements of a list of Sparse that its hook does not leave out
RECURSIVE Kept(_)
Kept(els) ==
    IF els = <<>> THEN <<>>
    ELSE (IF Head(els) = PyStr("skip") THEN <<>> ELSE <<Head(els)>>) \o Kept(Tail(els))
\* what field f of the instance serializes to
Emitted(f) == serialize_item(cls, f, Val(obj).attrs[f])[2]

\* C11: the output of json() holds undefined nowhere; a field that is or
\* serializes to undefined is left out, a list loses the elements that
\* serialize to undefined, and a field that is None is emitted as None
C11_NoUndefined ==
    Serialized
        => /\ ~HoldsUndefined(out)
           /\ \A f \in Fields(cls) :
                /\ Val(obj).attrs[f] = undefined => f \notin DictKeys(Val(out))
                /\ f \in DictKeys(Val(out)) <=> Emitted(f) # undefined
                /\ Val(obj).attrs[f] = None => f \in DictKeys(Val(out)) /\ DictVal(Val(out), f) = None
           /\ (cls = "Sparse" /\ TypeOf(Val(obj).attrs["tags"]) = "list")
                => DictVal(Val(out), "tags") = PyList(Kept(Val(Val(obj).attrs["tags"])))

\* a list loses one of its two elements and keeps a None, the hook removes a
\* field
C11_Witness ==
    /\ Serialized /\ cls = "Sparse"
    /\ Val(obj).attrs["tags"] = PyList(<<PyStr("skip"), None>>)
    /\ Val(obj).attrs["note"] = PyStr("skip")
    /\ out = PyDict(<< <<"tags", PyList(<<None>>)>> >>)

\* every field of class c is declared JsonOpt
AllOptional(c) == \A i \in 1..Len(type_hints(c)) : get_origin(type_hints(c)[i][2]) = "JsonOpt"
\* the instance was built from the empty object
FromEmpty == pc = "built" /\ Given = PyDict(<<>>)

\* C12 (as stated): {} parsed against a schema whose fields are all optional
\* gives an instance whose fields are all undefined, and json() gives {}
C12_AllAbsent ==
    (FromEmpty /\ AllOptional(cls))
        => /\ \A f \in Fields(cls) : Val(obj).attrs[f] = undefined
           /\ Serialized => out = PyDict(<<>>)

\* C12 (amended): {} parsed against a schema whose fields are all optional
\* gives an instance whose fields without a class default are all undefined
\* and whose other fields hold their default; json() gives the defaulted
\* fields only, which is {} when no field declares a default
C12_IdempotentAbsence ==
    (FromEmpty /\ AllOptional(cls))
        => /\ \A f \in Fields(cls) :
                Val(obj).attrs[f] = IF f \in DictKeys(class_attrs(cls))
                                    THEN DictVal(class_attrs(cls), f) ELSE undefined
           /\ Serialized => SameJson(out, PyDict(class_attrs(cls)))
           /\ (Serialized /\ class_attrs(cls) = <<>>) => out = PyDict(<<>>)

C12_Witness ==
    /\ FromEmpty /\ cls = "Loose" /\ TypeOf(raw) = "text" /\ Serialized /\ out = PyDict(<<>>)
    /\ \A f \in Fields(cls) : Val(obj).attrs[f] = undefined

\* the fields of the class that declare a default, and the keys of the raw
\* object
Defaulted == DictKeys(class_attrs(cls))
GivenKeys == IF IsObject(Given) THEN DictKeys(Val(Given)) ELSE {}
\* the raw object completed by the default of field f
WithDefault(f) ==
    PyDict((IF IsObject(Given) THEN Val(Given) ELSE <<>>) \o << <<f, DictVal(class_attrs(cls), f)>> >>)

\* C13: a defaulted field absent from the input holds its default, the
\* instance is the one the input with the default written out gives, so it
\* validates alike, and json() emits the default; an absent field without a
\* default is undefined; a key of the input overrides the default
C13_Defaults ==
    (pc = "built" /\ cls \in HookFree)
        => \A f \in Fields(cls) :
            /\ (f \in Defaulted /\ f \notin GivenKeys)
                    => /\ Val(obj).attrs[f] = DictVal(class_attrs(cls), f)
                       /\ Val(obj).attrs = Val(JsonObj_init(cls, WithDefault(f)).self).attrs
                       /\ validate_type(Val(obj).attrs[f], HintOf(cls, f), TRUE).st = "ok"
                       /\ Serialized => /\ f \in DictKeys(Val(out))
                                         /\ DictVal(Val(out), f) = DictVal(class_attrs(cls), f)
            /\ (f \notin Defaulted /\ f \notin GivenKeys) => Val(obj).attrs[f] = undefined
            /\ (f \in Defaulted /\ f \in GivenKeys) => Val(obj).attrs[f] = DictVal(Val(Given), f)

\* one default is applied and emitted, the other is overridden by the input
C13_Witness ==
    /\ ValidatedOk /\ Serialized /\ cls = "SomeDict2" /\ IsObject(Given)
    /\ "name" \notin GivenKeys /\ "name_opt" \in GivenKeys
    /\ Val(obj).attrs["name"] = PyStr("anonym") /\ Val(obj).attrs["name_opt"] = PyStr("x")
    /\ DictVal(Val(out), "name") = PyStr("anonym") /\ DictVal(Val(out), "name_opt") = PyStr("x")

\* the key an item of the raw object has after the hook of class c
HookKey(c, item) == IF _parse(c, item[1], item[2]).st = "ret" THEN _parse(c, item[1], item[2]).k ELSE item[1]
\* the items of the raw object whose key, after the hook, is no schema
\* field, and the raw object without them
UnknownItems == SelectSeq(Val(Given), LAMBDA item : HookKey(cls, item) \notin Fields(cls))
Stripped == PyDict(SelectSeq(Val(Given), LAMBDA item : HookKey(cls, item) \in Fields(cls)))
Fresh == pc = "built" /\ IsObject(Given) /\ calls = 0

\* C14 (as stated): the keys that are no schema field set no attribute,
\* change no schema field and give no error in validate(): the instance is
\* the one built from the raw object without them, and validates alike
C14_NoTrace ==
    Fresh => /\ DOMAIN Val(obj).attrs = Fields(cls)
             /\ Val(obj).attrs = Val(JsonObj_init(cls, Stripped).self).attrs
             /\ validate(Val(obj)).err = validate(Val(JsonObj_init(cls, Stripped).self)).err

\* C14 (amended): the keys that are no schema field set no attribute and
\* change no schema field; they record the exceptions their hook raises and
\* nothing else, and when the hook raises for none of them validate()
\* returns what it returns without them; no input writes _exceptions
C14_UnknownDropped ==
    Fresh => /\ DOMAIN Val(obj).attrs = Fields(cls)
             /\ Val(obj).attrs = Val(JsonObj_init(cls, Stripped).self).attrs
             /\ Val(obj)._exceptions = HookFailures(cls, Val(Given), 1)
             /\ HookFailures(cls, UnknownItems, 1) = <<>>
                    => /\ obj = JsonObj_init(cls, Stripped).self
                       /\ validate(Val(obj)).err = validate(Val(JsonObj_init(cls, Stripped).self)).err
             /\ cls = "AB" => Val(obj)._exceptions = <<>>

\* an unknown key is dropped, the hook raises for another key that is no
\* schema field
C14_Witness ==
    /\ pc = "built" /\ cls = "Mapped" /\ IsObject(Given) /\ calls = 1
    /\ {"zzz", "until", "frm"} \subseteq GivenKeys
    /\ DictVal(Val(Given), "until") = PyStr("x")
    /\ verr.err = PyStr("until: invalid literal for int()")

\* _exceptions in the input writes nothing
C14_WitnessPrivate ==
    /\ ValidatedOk /\ cls = "AB" /\ "_exceptions" \in GivenKeys /\ Val(obj)._exceptions = <<>>

\* type_to_json has been called, last on a record type with a field of its
\* own type
Documented == pc = "documented"
SelfField(c) ==
    CASE c = "SomeObj" -> "some?" [] c = "ViaList" -> "kids" [] c = "ViaDict" -> "m" [] c = "ViaUnion" -> "u"
SelfReferring == {"SomeObj", "ViaList", "ViaDict", "ViaUnion"}
\* the entries of the table under name
EntriesOf(name) == {i \in 1..Len(doc.types) : doc.types[i][1] = name}

\* C15: type_to_json on a record type with a field of its own type, direct
\* or through a list, a dict or a union, returns; the table then holds one
\* entry for the type, in which the field is a name and no nested record
C15_SelfReference ==
    (Documented /\ doc.otype[2] \in SelfReferring)
        => /\ doc.st = "ok"
           /\ Cardinality(EntriesOf(doc.otype[2])) = 1
           /\ TypeOf(DictVal(doc.types, doc.otype[2])) = "dict"
           /\ SelfField(doc.otype[2]) \in DictKeys(Val(DictVal(doc.types, doc.otype[2])))
           /\ TypeOf(DictVal(Val(DictVal(doc.types, doc.otype[2])), SelfField(doc.otype[2]))) = "str"

\* the same holds of the self-references that are direct or go through a
\* dict or a union
C15_GuardedSelfReference ==
    (Documented /\ doc.otype[2] \in SelfReferring \ {"ViaList"})
        => /\ doc.st = "ok"
           /\ Cardinality(EntriesOf(doc.otype[2])) = 1
           /\ TypeOf(DictVal(Val(DictVal(doc.types, doc.otype[2])), SelfField(doc.otype[2]))) = "str"

\* through a list the recursion goes on until the stack is full
C15_Overflow ==
    /\ Documented /\ doc.otype = ObjT("ViaList") /\ doc.toplvl /\ doc.n = 1
    /\ doc.st = "raise" /\ doc.types = << <<"ViaList", PyDict(<<>>)>> >>
C15_Witness ==
    /\ Documented /\ doc.otype = ObjT("SomeObj") /\ doc.toplvl /\ doc.n = 1 /\ doc.st = "ok"
    /\ doc.types = << <<"SomeObj", PyDict(<< <<"value", PyStr("number")>>, <<"isCool?", PyStr("boolean")>>,
                                            <<"name", PyStr("string")>>, <<"some?", PyStr("SomeObj")>> >>)>> >>

\* the instance as the constructor made it
Built == Val(JsonObj_init(cls, Given).self)
\* the field at which the loop of validate() ends
LastExamined ==
    IF FieldsWith({"err"}) = {} THEN Len(type_hints(cls)) ELSE Least(FieldsWith({"err"}))
RECURSIVE Times(_, _)
Times(q, n) == IF n = 0 THEN <<>> ELSE q \o Times(q, n - 1)
\* the instances held by the fields of the instance, directly or in a list
Nested ==
    {Val(obj).attrs[f] : f \in {g \in Fields(cls) : TypeOf(Val(obj).attrs[g]) = "JsonObj"}}
    \cup UNION {{Val(Val(obj).attrs[f])[i] : i \in 1..Len(Val(Val(obj).attrs[f]))} :
                    f \in {g \in Fields(cls) : TypeOf(Val(obj).attrs[g]) = "list"}}

Checked == pc = "built" /\ ret.st # "none"

\* C17: valid() returns the instance itself exactly when validate() returns
\* no error and raises JsonParseError otherwise, so the instance it returns
\* is valid; is_valid() is true exactly when validate() returns no error
C17_Valid ==
    Checked
        => /\ ret.call = "valid"
                => /\ ret.st = "return" <=> ret.err = None
                   /\ ret.st = "return" => (ret.v = obj /\ validate(Val(ret.v)).err = None)
                   /\ ret.st # "return" => (ret.st = "raise" /\ ret.x.type = "JsonParseError")
           /\ ret.call = "is_valid"
                => (ret.st = "return" /\ ret.v = PyBool(ret.err = None))

\* valid() returns the instance parsed from a valid object
C17_Witness ==
    /\ Checked /\ ret.call = "valid" /\ ret.st = "return" /\ ret.v = obj
    /\ cls = "SomeDict" /\ Len(Val(Val(obj).attrs["v"])) = 1
\* valid() raises the error of validate(), or the first recorded exception
C17_WitnessError ==
    Checked /\ ret.call = "valid" /\ ret.x = Exc("JsonParseError", "a is not int")
C17_WitnessException ==
    /\ Checked /\ ret.call = "valid" /\ cls = "Mapped"
    /\ ret.x = Exc("JsonParseError", "ValueError('bad rect')")
C17_WitnessIsValid ==
    Checked /\ ret.call = "is_valid" /\ ret.v = PyBool(FALSE) /\ Len(Val(obj)._exceptions) > 0
\* the call ended with the exception validate() raised on naming a union
C17_Unnamed == Checked /\ ret.st = "raise" /\ ret.x = NoNameError
\* apart from that exception of validate(), the calls do as C17 states
C17_ValidNamed == ~C17_Unnamed => C17_Valid

\* the calls of delete() and restore() on record id that were not vetoed
Effective(id) == {i \in 1..Len(hist) : hist[i].id = id /\ hist[i].allowed}
\* the outcome of the last of them: deleted or not; a record starts not deleted
LastOutcome(id) ==
    IF Effective(id) = {} THEN FALSE
    ELSE hist[CHOOSE i \in Effective(id) : \A j \in Effective(id) : j <= i].op = "delete"
Queried == found.st = "done"
\* the records a call may return when it includes the deleted ones
Asked == IF found.call = "all" THEN Ids ELSE {found.id}

\* C18: after any delete() and restore() calls, all and get with the default
\* includeDeleted=False return no record whose deleted flag is true, with
\* includeDeleted=True they return the deleted records too, and the deleted
\* flag of a record is the outcome of the last call that was not vetoed
C18_SoftDelete ==
    /\ \A id \in Ids : db.objs[id] = LastOutcome(id)
    /\ Queried
        => /\ ~found.includeDeleted => \A id \in found.ids : ~found.deleted[id]
           /\ ~found.includeDeleted => found.ids = {id \in Asked : ~found.flags[id]}
           /\ found.includeDeleted => found.ids = Asked

\* record 1 was deleted without a commit and a restore of it vetoed; all()
\* leaves it out
C18_Witness ==
    /\ Queried /\ found.call = "all" /\ ~found.includeDeleted /\ found.ids = {2}
    /\ Len(hist) = 2 /\ hist[1] = [op |-> "delete", id |-> 1, allowed |-> TRUE]
    /\ hist[2] = [op |-> "restore", id |-> 1, allowed |-> FALSE]
    /\ db.committed[1] = FALSE
\* get(1, includeDeleted=True) returns the deleted record
C18_WitnessIncluded ==
    Queried /\ found.call = "get" /\ found.includeDeleted /\ found.ids = {1} /\ found.deleted[1]
\* a restored record is returned again by default
C18_WitnessRestored ==
    /\ Queried /\ found.call = "get" /\ ~found.includeDeleted /\ found.ids = {1}
    /\ Len(hist) = 2 /\ hist[1].op = "delete" /\ hist[2].op = "restore" /\ hist[1].allowed

Called == last.st = "done"
\* what the call did to the flag, the Log and the commits
FlagSet == last.after.objs[last.id] = (last.op = "delete")
LogsAdded == Len(last.after.logs) - Len(last.before.logs)
Committed == last.after.commits - last.before.commits

\* C19: when the hook returns False the call returns False, leaves the
\* deleted flag unchanged, writes no Log entry and does not commit; when it
\* returns True the call sets the flag, writes exactly one Log entry with
\* action deleted (restored) and returns True
C19_Veto ==
    Called
        => /\ ~last.allowed => (last.ret = FALSE /\ last.after = last.before)
           /\ last.allowed
                => /\ last.ret = TRUE /\ FlagSet /\ LogsAdded = 1
                   /\ last.after.logs[Len(last.after.logs)].actionCode
                        = (IF last.op = "delete" THEN "deleted" ELSE "restored")
                   /\ last.after.logs[Len(last.after.logs)].recordId = last.id

\* C19 for the records that are a TableBase; another record gets its flag
\* set and the commit asked for, and no Log entry
C19_VetoTable ==
    /\ is_table => C19_Veto
    /\ (~is_table /\ Called)
        => /\ ~last.allowed => (last.ret = FALSE /\ last.after = last.before)
           /\ last.allowed
                => /\ last.ret = TRUE /\ FlagSet /\ LogsAdded = 0
                   /\ Committed = (IF last.commit THEN 1 ELSE 0)

\* the restore of a deleted record is vetoed, with a commit asked for
C19_Witness ==
    /\ Called /\ is_table /\ last.op = "restore" /\ ~last.allowed /\ last.commit
    /\ last.before.objs[last.id] /\ Len(last.before.logs) = 1
\* a delete goes through and its Log entry is committed
C19_WitnessAllowed ==
    /\ Called /\ is_table /\ last.op = "delete" /\ last.allowed /\ last.commit
    /\ last.after.saved = Len(last.after.logs) /\ last.after.committed[last.id]
    /\ last.after.logs[Len(last.after.logs)].changes = << <<"deleted", FALSE, TRUE>> >>
\* a record that is no TableBase is deleted without a Log entry
C19_WitnessPlain == Called /\ ~is_table /\ last.op = "delete" /\ last.allowed /\ last.after.logs = <<>>

\* no call of get is under way, and session s has called it
Quiet == \A s \in Sessions : sess[s].pc # "missing"
Got(s) == sess[s].gets > 0
\* the rows of the table as session s sees them
Visible(s) == sdb.rows \cup (IF sess[s].pending \/ sess[s].tx THEN {_ID} ELSE {})

\* C20: after any calls of SingletonMixin.get, from two sessions too, the
\* table holds exactly the row _ID, init() has run exactly once and every
\* call has returned the row
C20_Singleton ==
    (Quiet /\ \E s \in Sessions : Got(s))
        => /\ \A s \in Sessions : Got(s) => (Visible(s) = {_ID} /\ sess[s].res = "row")
           /\ sdb.inits = 1

\* two sessions have got the row that one of them made
C20_Witness ==
    /\ sess["s1"].res = "row" /\ sess["s1"].have /\ sess["s2"].res = "row" /\ sess["s2"].have
    /\ sdb.rows = {_ID} /\ sdb.inits = 1
\* both sessions found the table empty; the second commit failed
C20_WitnessRace ==
    /\ sess["s1"].res = "row" /\ sess["s2"].res = "raise" /\ sess["s2"].gets = 1
    /\ sdb.rows = {_ID} /\ sdb.inits = 2
\* a session that calls get alone does as C20 states
C20_Alone ==
    Cardinality({s \in Sessions : Got(s)}) <= 1 => C20_Singleton

\* the fields of Twin declared T, each followed by its twin declared JsonOpt[T]
Twins == {<<"rec", "rec_opt">>, <<"date", "date_opt">>, <<"objs", "objs_opt">>}
\* the raw object gives the same value to both fields of the pair
SameGiven(pair) ==
    /\ IsObject(Given) /\ pair[1] \in DictKeys(Val(Given)) /\ pair[2] \in DictKeys(Val(Given))
    /\ DictVal(Val(Given), pair[1]) = DictVal(Val(Given), pair[2])

\* C22: a field declared JsonOpt[T] is coerced at parse time exactly like a
\* field declared T: given the same raw value, both hold the same value
C22_SameCoercion ==
    (pc = "built" /\ cls = "Twin")
        => \A pair \in Twins : SameGiven(pair) => Val(obj).attrs[pair[1]] = Val(obj).attrs[pair[2]]

\* what the code does: the field declared JsonOpt[T] keeps the raw value
C22_OptKeepsRaw ==
    (pc = "built" /\ cls = "Twin" /\ IsObject(Given))
        => \A pair \in Twins :
              pair[2] \in DictKeys(Val(Given)) => Val(obj).attrs[pair[2]] = DictVal(Val(Given), pair[2])

\* a raw object under both fields: the one declared Named is made an instance
C22_Witness ==
    /\ pc = "built" /\ cls = "Twin" /\ SameGiven(<<"rec", "rec_opt">>)
    /\ TypeOf(Val(obj).attrs["rec"]) = "JsonObj"
\* an ISO string under date_opt is valid JSON for the field and fails validate()
C22_WitnessDate ==
    /\ pc = "built" /\ cls = "Twin" /\ verr.st = "return"
    /\ Val(obj).attrs["rec"] = Instance("Named", [name |-> PyStr("a")], <<>>)
    /\ Val(obj).attrs["date"] = PyDatetime("2020-01-01T00:00:00")
    /\ Val(obj).attrs["objs"] = undefined
    /\ Val(obj).attrs["date_opt"] = PyStr("2020-01-01")
    /\ verr.err = PyStr("date_opt is not datetime")

\* validate() has run on a Box whose nested Mapped carries a recorded exception
NestedExcepted ==
    /\ pc = "built" /\ cls = "Box" /\ verr.st # "none"
    /\ TypeOf(Val(obj).attrs["m"]) = "JsonObj"
    /\ Len(Val(Val(obj).attrs["m"])._exceptions) > 0

\* C23: when the nested instance held by field f carries a recorded
\* exception, validating the outer record examines no field after f and
\* returns an error whose path is f followed by the nested field
C23_NestedShortCircuit ==
    NestedExcepted
        => /\ verr.examined = <<"m">>
           /\ verr.err = PyStr("m." \o Val(validate(Val(Val(obj).attrs["m"])).err))

\* C23 as the code has it: the exception is raised out of validate_type and
\* recorded under f, every field is examined until one returns an error,
\* and the error names f, its type and the repr of the nested exception
C23_NestedException ==
    NestedExcepted
        => /\ verr.st = "return"
           /\ verr.examined \in {<<"m", "n">>}
           /\ Val(obj)._exceptions[1]
                = <<"m", Exc("JsonParseError", ExcRepr(Val(Val(obj).attrs["m"])._exceptions[1][2]))>>
           /\ verr.err = PyStr("m is not Mapped: "
                               \o ExcRepr(Val(Val(obj).attrs["m"])._exceptions[1][2]))

\* the field after the nested one fails its type too
C23_Witness ==
    /\ NestedExcepted /\ Val(obj).attrs["n"] = PyStr("x")
    /\ verr.err = PyStr("m is not Mapped: ValueError('bad rect')")

\* validate_type has been called with a record type
RecordChecked == pc = "typed" /\ vt.st = "done" /\ IsJsonObjClass(vt.otype)
\* the value as an instance of record type R: itself if it is one, else
\* parsed with R's schema
AsRecord(o, R) == IF TypeOf(o) = "JsonObj" /\ Val(o).cls = R THEN o ELSE JsonObj_init(R, o).self
\* the value conforms to R's schema
Conforms(o, R) ==
    /\ validate(Val(AsRecord(o, R))).st = "return"
    /\ validate(Val(AsRecord(o, R))).err = None
    /\ Len(validate(Val(AsRecord(o, R))).exc) = 0

\* C24: validate_type against record type R accepts a value only if it
\* conforms to R's schema; a value that is no instance of R, a raw object or
\* an instance of another record type, is parsed with R's schema first
C24_ConformsToR == RecordChecked => (vt.res.st = "ok" => Conforms(vt.obj, vt.otype[2]))

\* what the code does: an instance of any record type is validated against
\* its own class
C24_OwnClass ==
    (RecordChecked /\ TypeOf(vt.obj) = "JsonObj")
        => (vt.res.st = "ok" <=> Conforms(vt.obj, Val(vt.obj).cls))

\* a raw object without the required field is rejected for Named
C24_Witness ==
    /\ RecordChecked /\ vt.otype = ObjT("Named") /\ vt.obj = PyDict(<< <<"tag", PyInt(1)>> >>)
    /\ vt.res.err = PyStr(".name is undefined")
\* a Loose instance is accepted as Named
C24_WitnessOther ==
    /\ RecordChecked /\ vt.otype = ObjT("Named") /\ TypeOf(vt.obj) = "JsonObj"
    /\ Val(vt.obj).cls = "Loose" /\ vt.res.st = "ok"

RECURSIVE path_error(_, _, _)
\* the path to the first failing leaf of value o under type t, followed by
\* the reason for the leaf; "" when o conforms.  An optional wrapper is
\* stepped through when through is true, and else ends the path with the
\* name of the wrapped type
path_leaf(o, t) ==
    IF o = undefined THEN " is undefined"
    ELSE IF TypeOf(o) = "bool" THEN (IF t = bool THEN "" ELSE " is not " \o TypeName(t))
    ELSE IF isinstance(o, t) THEN "" ELSE " is not " \o TypeName(t)
path_first(bad, step(_), rest(_)) == IF bad = {} THEN "" ELSE step(Least(bad)) \o rest(Least(bad))
path_list(els, t, through) ==
    LET at(i) == "[" \o ToString(i - 1) \o "]"
        below(i) == path_error(els[i], t, through)
    IN  path_first({i \in 1..Len(els) : path_error(els[i], t, through) # ""}, at, below)
path_dict(items, tv, through) ==
    LET at(i) == "." \o items[i][1]
        below(i) == path_error(items[i][2], tv, through)
    IN  path_first({i \in 1..Len(items) : path_error(items[i][2], tv, through) # ""}, at, below)
path_record(self, through) ==
    LET hints == type_hints(self.cls)
        at(i) == "." \o hints[i][1]
        below(i) == path_error(self.attrs[hints[i][1]], hints[i][2], through)
    IN  path_first({i \in 1..Len(hints) : path_error(self.attrs[hints[i][1]], hints[i][2], through) # ""},
                   at, below)
path_error(o, t, through) ==
    CASE t[1] = "list[]" ->
            IF TypeOf(o) # "list" THEN " is not list[" \o TypeName(t[2][1]) \o "]"
            ELSE path_list(Val(o), t[2][1], through)
      [] t[1] = "dict[]" ->
            IF TypeOf(o) # "dict" THEN " is not dict[" \o TypeName(t[2][1]) \o "," \o TypeName(t[2][2]) \o "]"
            ELSE path_dict(Val(o), t[2][2], through)
      [] t[1] = "JsonOpt" ->
            IF o = undefined THEN ""
            ELSE IF through THEN path_error(o, t[2][1], through)
            ELSE IF path_error(o, t[2][1], through) = "" THEN "" ELSE " is not " \o TypeName(t[2][1])
      [] t[1] = "JsonObj subclass" -> path_record(Val(AsRecord(o, t[2])), through)
      [] OTHER -> path_leaf(o, t)
\* the error of the first failing field of the instance, with its path
PathOf(through) ==
    IF path_record(Val(obj), through) = "" THEN None
    ELSE PyStr(SubSeq(path_record(Val(obj), through), 2, Len(path_record(Val(obj), through))))
DeepValidated == pc = "built" /\ cls = "Deep" /\ verr.st # "none"

\* C25: for a value failing at any depth through lists, mappings, nested
\* records and optional wrappers, the error of validate() holds every step
\* of the path from the field down to the failing leaf, then the reason
C25_FullPath == DeepValidated => (verr.st = "return" /\ verr.err = PathOf(TRUE))

\* C25 with the path ending at an optional wrapper: below it the error
\* only says that the value is not of the wrapped type
C25_PathToWrapper == DeepValidated => (verr.st = "return" /\ verr.err = PathOf(FALSE))

\* the failing leaf lies in a list of a mapping
C25_Witness ==
    /\ DeepValidated /\ verr.err = PyStr("table.k[1] is not int")
    /\ Val(obj).attrs["grid"] = PyList(<<PyList(<<PyInt(1)>>)>>)
\* two lists deep, and in a nested record of a list
C25_WitnessGrid == DeepValidated /\ verr.err = PyStr("grid[1][1] is not int")
C25_WitnessObjs == DeepValidated /\ verr.err = PyStr("objs[1].name is not str")
\* the failing element of an optional list is not located
C25_WitnessOpt ==
    /\ DeepValidated /\ verr.err = PyStr("opt is not list")
    /\ Val(obj).attrs["opt"] = PyList(<<PyInt(1), PyStr("a")>>)

RECURSIVE parsed_against(_, _)
\* the raw value el parsed against type t without any hook: a record type
\* makes an instance, a list type parses each element in order
parsed_against(el, t) ==
    IF t[1] = "JsonObj subclass" THEN JsonObj_init(t[2], el).self
    ELSE IF t[1] = "list[]" /\ TypeOf(el) = "list"
    THEN PyList([i \in 1..Len(Val(el)) |-> parsed_against(Val(el)[i], t[2][1])])
    ELSE el
\* the fields of the class declared list[T] that the raw object gives a list
ListsGiven ==
    {f \in Fields(cls) : /\ HintOf(cls, f)[1] = "list[]" /\ f \in DictKeys(Val(Given))
                         /\ TypeOf(DictVal(Val(Given), f)) = "list"}
ListsBuilt(C) == pc = "built" /\ cls \in C /\ IsObject(Given)

\* C26: a field declared list[T] given a list holds every raw element
\* parsed against T, in the original order, a record type T making an
\* instance of each; no element is dropped for its shape
C26_ElementsParsed ==
    ListsBuilt({"Deep", "Norm"})
        => \A f \in ListsGiven : Val(obj).attrs[f] = parsed_against(DictVal(Val(Given), f), HintOf(cls, f))

\* C26 for the class without hooks
C26_HookFree ==
    ListsBuilt({"Deep"})
        => \A f \in ListsGiven : Val(obj).attrs[f] = parsed_against(DictVal(Val(Given), f), HintOf(cls, f))

\* the hook of Norm has answered for an element of objs, which stays the
\* raw object it was
C26_Witness ==
    /\ ListsBuilt({"Norm"}) /\ "objs" \in ListsGiven
    /\ Val(obj).attrs["objs"] = PyList(<<PyDict(<< <<"name", PyStr("a")>> >>)>>)
\* without hooks the elements are made instances, the ill-shaped one too
C26_WitnessHookFree ==
    /\ ListsBuilt({"Deep"}) /\ "objs" \in ListsGiven
    /\ Len(Val(Val(obj).attrs["objs"])) = 2
    /\ \A i \in 1..2 : TypeOf(Val(Val(obj).attrs["objs"])[i]) = "JsonObj"

\* the raw object gives SomeDict2.date a value that is no datetime and that
\* __datetime_parser__ does not convert
DateGiven == IF IsObject(Given) /\ "date" \in DictKeys(Val(Given)) THEN DictVal(Val(Given), "date") ELSE undefined
DateUnconverted ==
    /\ cls = "SomeDict2" /\ pc \in {"built", "raised"}
    /\ DateGiven # undefined /\ TypeOf(DateGiven) # "datetime" /\ fromisoformat(DateGiven).st = "raise"

\* C27: when __datetime_parser__ fails on the raw value of a datetime field,
\* the constructor returns, the field holds the raw value, no exception is
\* recorded, and the field fails validation as not a datetime: validate()
\* returns that error once the field declared before it conforms
C27_DatetimeLeftRaw ==
    DateUnconverted
        => /\ pc = "built"
           /\ Val(obj).attrs["date"] = DateGiven
           /\ Val(obj)._exceptions = <<>>
           /\ FieldResult(2).st = "err" /\ FieldResult(2).err = PyStr(" is not datetime")
           /\ (verr.st # "none" /\ FieldResult(1).err = None)
                 => (verr.st = "return" /\ verr.err = PyStr("date is not datetime"))

\* a string that is no ISO date was given and validate() has reported it
C27_Witness ==
    /\ DateUnconverted /\ DateGiven = PyStr("bad")
    /\ verr.st = "return" /\ verr.err = PyStr("date is not datetime")
\* a number was given
C27_WitnessInt == DateUnconverted /\ DateGiven = PyInt(5) /\ verr.st = "return"

\* the record type a documented type refers to: itself, or the element type
\* of a list
RecordOf(t) ==
    IF IsJsonObjClass(t) THEN t[2]
    ELSE IF t[1] = "list[]" /\ IsJsonObjClass(t[2][1]) THEN t[2][1][2]
    ELSE ""
\* the table held a filled entry for the name before the last call
FilledBefore(name) == name \in DictKeys(doc.before) /\ DictVal(doc.before, name) # PyDict(<<>>)
\* the last call of type_to_json has returned
Exported == Documented /\ doc.st = "ok"
\* the entries filled before the last call are as they were
EntriesKept ==
    \A name \in DictKeys(doc.before) :
        /\ Cardinality(EntriesOf(name)) = 1
        /\ FilledBefore(name) => DictVal(doc.types, name) = DictVal(doc.before, name)

\* C28: after each exported route type, a record type it refers to has
\* exactly one entry in the shared table, under its name; a reference to a
\* record type that the table already holds yields the name only; an entry
\* once filled is not overwritten
C28_Dedup ==
    Exported
        => /\ EntriesKept
           /\ RecordOf(doc.otype) # "" => Cardinality(EntriesOf(RecordOf(doc.otype))) = 1
           /\ FilledBefore(RecordOf(doc.otype)) => TypeOf(doc.v) = "str"

\* the part that holds: entries are kept, and a record type met below the
\* top level is in the table afterwards
C28_EntriesKept ==
    Exported
        => /\ EntriesKept
           /\ (RecordOf(doc.otype) # "" /\ ~doc.toplvl) => Cardinality(EntriesOf(RecordOf(doc.otype))) = 1

\* a second route of type list[Named]: Named is in the table, filled, and
\* its fields are expanded again in the route's entry
C28_Witness ==
    /\ Exported /\ doc.n = 2 /\ doc.otype = ListOf(ObjT("Named")) /\ doc.toplvl
    /\ FilledBefore("Named")
    /\ doc.v = PyList(<<PyDict(<< <<"name", PyStr("string")>> >>)>>)
\* a route of type Named, as init_api_docs passes it: no entry is made
C28_WitnessTop ==
    /\ Exported /\ doc.n = 1 /\ doc.otype = ObjT("Named") /\ doc.toplvl
    /\ doc.types = <<>> /\ TypeOf(doc.v) = "dict"

\* what run() has done so far
Done(e) == \E i \in 1..Len(app.done) : app.done[i] = e
Before(e, f) == \E i \in 1..Len(app.done) : app.done[i] = e /\ \A j \in 1..i : app.done[j] # f
\* run() has returned, raised, or is in the server's loop
Ended == app.pc \in {"returned", "raised", "serving"}
\* the server is started only after the setup, when the setup is made
SetupFirst ==
    Done("app.run") => /\ Before("init_database", "app.run")
                       /\ app.use_alembic => Before("alembic_upgrade", "init_database")
SetupSkipped == ~Done("alembic_upgrade") /\ ~Done("init_database") /\ ~Done("is_initialized")
SetupOnly ==
    /\ ~Done("app.run") /\ app.pc # "serving"
    /\ app.pc = "returned" => /\ Done("init_database") /\ app.done[Len(app.done)] = "init_database"
                              /\ app.use_alembic => Before("alembic_upgrade", "init_database")

\* C21: with THREADED false the setup is complete before the server is
\* started; with THREADED true and no --setup the setup is skipped and the
\* server runs; with THREADED true and --setup only the setup is made and
\* run() returns without starting the server
C21_Modes ==
    /\ ~app.THREADED => SetupFirst
    /\ (app.THREADED /\ ~app.setup) => (SetupSkipped /\ (Ended => app.pc = "serving"))
    /\ (app.THREADED /\ app.setup) => (SetupOnly /\ (Ended => app.pc = "returned"))

\* C21 with the argument run_server and the callbacks taken into account:
\* the server runs if run_server is true, and a setup whose callback raises
\* ends run() with that exception
C21_ModesRunServer ==
    /\ ~app.THREADED => SetupFirst
    /\ (app.THREADED /\ ~app.setup)
          => (SetupSkipped /\ (Ended => app.pc = IF app.run_server THEN "serving" ELSE "returned"))
    /\ (app.THREADED /\ app.setup) => (SetupOnly /\ (Ended => app.pc \in {"returned", "raised"}))
    /\ app.pc = "raised" => (SetsUp /\ ~Done("init_database") /\ ~Done("app.run"))

\* the three modes have ended: served after migrating, served at once, set up
C21_Witness ==
    /\ ~app.THREADED /\ app.use_alembic /\ app.pc = "serving"
    /\ Before("alembic_upgrade", "init_database") /\ Before("init_database", "app.run")
C21_WitnessThreaded == app.THREADED /\ ~app.setup /\ app.pc = "serving" /\ SetupSkipped
C21_WitnessSetup == app.THREADED /\ app.setup /\ app.pc = "returned" /\ Done("alembic_upgrade")
\* run(False) in a threaded process returns with no server
C21_WitnessNoServer == app.THREADED /\ ~app.setup /\ app.pc = "returned" /\ ~app.run_server

\* the sessions that are created and not closed
OpenSessions == (1..web.created) \ web.closed
\* in a request context every running wrapper holds the one open session,
\* which is that of g and was created by the outermost wrapper; when none
\* runs, every session is closed and g holds none
SessionShared ==
    web.has_ctx
        => IF web.stack = <<>> THEN OpenSessions = {} /\ web.g = NoSession
           ELSE /\ OpenSessions = {web.g}
                /\ \A i \in 1..Len(web.stack) : web.stack[i].sess = web.g /\ (web.stack[i].own <=> i = 1)
\* a step of a nested wrapper creates no session, closes none and leaves g
NestedKeeps ==
    (web.has_ctx /\ (Len(web.stack) > 1 \/ Len(web'.stack) > 1))
        => (web'.created = web.created /\ web'.closed = web.closed /\ web'.g = web.g)
\* the end of the outermost wrapper closes the session and removes it from
\* g, whether fn returned or raised
OutermostCloses ==
    (web.has_ctx /\ Len(web.stack) = 1 /\ web'.stack = <<>>)
        => (web'.closed = web.closed \cup {web.g} /\ web'.g = NoSession)

\* C29: in a request context, whatever the nesting of functions wrapped
\* with use_db_session or use_db_sess, the outermost call creates the one
\* session and every nested call gets it; only the outermost call closes it
\* and removes g.db_session, also when fn raises, and no nested call closes
\* or removes it
C29_SessionReuse == []SessionShared /\ [][NestedKeeps /\ OutermostCloses]_vars

\* three wrappers of both kinds run on the one session
C29_Witness ==
    /\ web.has_ctx /\ Len(web.stack) = 3 /\ web.created = 1 /\ web.closed = {}
    /\ web.stack[1].w = "use_db_session" /\ web.stack[2].w = "use_db_sess"
\* the outermost function has raised after a nested one: the session is closed
C29_WitnessRaised ==
    /\ web.has_ctx /\ web.stack = <<>> /\ web.raised /\ web.created = 1 /\ web.closed = {1}

\* the number n of the contiguous run name.1.ext .. name.n.ext among files
RunTop(files) == CHOOSE n \in 0..(MaxFiles + 1) : (\A i \in 1..n : i \in files) /\ (n + 1) \notin files
\* a rollover goes to the file of the smallest number that did not exist
RolloverFresh ==
    logf.op = "rollover"
        => /\ logf.stream \notin logf.before /\ logf.stream >= 1
           /\ \A i \in 1..(logf.stream - 1) : i \in logf.before
\* a handler opened without rollover writes to the top of the run, or to
\* the base path when there is no run
OpenedOnTop == logf.op = "open" => logf.stream = RunTop(logf.before)
\* get_log_fpath_all lists the base path, then the run in increasing order
AllIsRun ==
    logf.op = "all"
        => /\ Len(logf.all) = RunTop(logf.fs) + 1
           /\ \A k \in 1..Len(logf.all) : logf.all[k] = k - 1
\* no step removes a file or shortens one, and a step with a rollover
\* changes no file that existed before it
OldFilesKept ==
    /\ logf.fs \subseteq logf'.fs
    /\ \A i \in logf.fs : logf'.len[i] >= logf.len[i]
    /\ logf'.op = "rollover" => \A i \in logf.fs : logf'.len[i] = logf.len[i]

\* C30: doRollover switches to name.i.ext with the smallest i >= 1 that
\* does not exist and never renames, truncates or reopens an earlier file;
\* a handler opened without rollover writes to the highest file of the
\* contiguous run (the base path without one); get_log_fpath_all returns
\* the base path followed by that run in increasing order
C30_Rotation == [](RolloverFresh /\ OpenedOnTop /\ AllIsRun) /\ [][OldFilesKept]_vars

\* a rollover has filled the gap left at name.2.ext while name.3.ext exists
C30_Witness ==
    /\ logf.op = "rollover" /\ logf.stream = 2 /\ logf.before = {0, 1, 3}
    /\ logf.len[1] = 2 /\ logf.len[2] > 0
\* the first rollover leaves the base path; a new handler goes to the top
C30_WitnessFirst == logf.op = "rollover" /\ logf.stream = 1 /\ logf.before = {0}
C30_WitnessOpen == logf.op = "open" /\ logf.stream = 2 /\ logf.before = {0, 1, 2}
C30_WitnessAll == logf.op = "all" /\ logf.all = <<0, 1, 2>> /\ 3 \notin logf.fs
====
